---- MODULE Spec2Model ----
(***************************************************************************)
(* A model of TicketToTest_AI: the sliding-window RateLimiter, the retry   *)
(* helper call_gemini_with_retry, the file-backed APICache, the five stage *)
(* agents and the AgentOrchestrator that runs them as a LangGraph          *)
(* StateGraph, and app.process_ticket that drives one run.                 *)
(*                                                                         *)
(* Time is counted in ticks of half a second (TicksPerSecond), the         *)
(* granularity of the limiter's 0.5 s safety buffer.  Quantities that the  *)
(* code computes as time_window / max_requests are kept multiplied by      *)
(* max_requests, so that all arithmetic is exact integer arithmetic.       *)
(***************************************************************************)
EXTENDS Integers, Sequences, FiniteSets, TLC

(* ---------------------------- model bounds ---------------------------- *)
MaxRequests == 2
MaxWindow == 2
MaxTime == 8
NumThreads == 2

(* -------------------------- program constants ------------------------- *)
TicksPerSecond == 2

VARIABLES
    clock,          \* time.time(), in ticks
    max_requests,   \* RateLimiter.max_requests
    time_window,    \* RateLimiter.time_window, in seconds
    requests,       \* RateLimiter.requests: the deque of recorded request times
    lock,           \* RateLimiter.lock: the thread holding it, or NoThread
    pc,             \* per thread: where it is inside wait_if_needed
    now,            \* local `now` of the thread holding the lock
    wait_time,      \* local `wait_time` of the lock holder, times Scale
    end_time,       \* local `end_time` of _wait_with_feedback, times Scale
    last_wait,      \* per thread: the value its last wait_if_needed returned, times Scale
    reserved,       \* history: every time ever appended to requests, in order
    capacity,       \* history: the latest get_remaining_capacity return: [value, at, n, dropped]
    just_reset,     \* history: reset() returned and no wait_if_needed was called since
    \* ---- call_gemini_with_retry (one call at a time)
    r_pc,           \* "idle", "try", "sleep", "returned" or "raised"
    max_retries,    \* parameter max_retries
    attempt,        \* loop variable `attempt`
    last_error,     \* local `last_error`
    retry_delay,    \* local `retry_delay` of the pending time.sleep, in ticks
    response_text,  \* the text the call returned
    raised_error,   \* the exception the call raised to its caller
    outcomes,       \* history: what each generate_content attempt of this call did
    slept,          \* history: the time.sleep delays of this call, in ticks
    \* ---- APICache
    cache_files,    \* the files of cache_dir: entries [key, timestamp, response, readable]
    ttl,            \* APICache.ttl, in ticks
    cache_op,       \* history: the latest direct call of an APICache method
    cache_calls,    \* per thread: the APICache.get or set call it is inside of
    cache_stored,   \* history, per key: what the latest set() stored, once it has returned
    \* ---- the stage agents
    agent_rate_limiter, \* whether the agents' self.rate_limiter is set (not None)
    agent_api_cache,    \* whether the agents' self.api_cache is set (not None)
    \* ---- the compiled StateGraph while it streams one run
    channel_aliasing,   \* whether a node gets the channels' own list objects
    chan,           \* the channel values: the graph's AgentState
    local,          \* the AgentState dict the running node works on and returns
    shared,         \* the fields of local that still hold the channel's list object
    stage,          \* 0: no node running; 1..5: the node running or last run
    s_pc,           \* where the running node is inside process()
    cat_idx,        \* test_generator: index of the qa_roadmap category in work
    \* ---- AgentOrchestrator.process_ticket and app.process_ticket
    p_pc,           \* "idle", "node", "yielded" or "ended"
    final_state,    \* process_ticket's local final_state
    processing,     \* st.session_state.processing
    cancel_requested,       \* st.session_state.cancel_requested
    session_final_state,    \* st.session_state.final_state
    returned,       \* what app.process_ticket returned for the last run
    status_text,    \* the outcome shown: "", "Complete", "Cancelled" or "Failed"
    \* ---- history
    acquires,       \* wait_if_needed calls made for the logical call in work
    before,         \* the channel values when the running node started
    fresh,          \* per append field: the elements the running node produced
    latest,         \* per replace field: the value the latest node assigned or kept
    merged_stage,   \* the stage whose update was merged last (0: none)
    cancel_at,      \* when cancel was requested: [completed stages, node running]
    answered,       \* the latest request answered and stored: [key, text, at]
    calls,          \* the direct calls of the agent made so far
    requested,      \* history: the categories test_generator has asked for, in order
    \* ---- app.get_user_friendly_error
    ui_error,       \* str(error): the phrases the message is made of
    ui_message,     \* the message returned for it
    \* ---- rate_limiter.get_rate_limiter
    global_limiter, \* the module global _global_limiter: NoLimiter or an instance
    g_calls,        \* per thread: the get_rate_limiter call it is inside of
    g_created       \* history: the RateLimiter instances constructed, in order

limVars == <<clock, max_requests, time_window, requests, lock, pc, now,
             wait_time, end_time, last_wait, reserved, capacity,
                   just_reset>>

retryVars == <<r_pc, max_retries, attempt, last_error, retry_delay,
               response_text, raised_error, outcomes, slept>>

cacheVars == <<cache_files, ttl, cache_op, cache_calls, cache_stored>>

agentVars == <<agent_rate_limiter, agent_api_cache>>

helperVars == <<ui_error, ui_message, global_limiter, g_calls, g_created>>

graphVars == <<channel_aliasing, chan, local, shared, stage, s_pc, cat_idx>>

appVars == <<p_pc, final_state, processing, cancel_requested,
             session_final_state, returned, status_text>>

histVars == <<acquires, before, fresh, latest, merged_stage,
              cancel_at, answered, calls, requested>>

vars == <<limVars, retryVars, cacheVars, agentVars, helperVars, graphVars, appVars, histVars>>

\* what a direct call of an APICache method leaves alone
cacheFrame == <<limVars, retryVars, agentVars, helperVars, graphVars, appVars, histVars>>

NoThread == 0
Threads == 1..NumThreads

Max(a, b) == IF a >= b THEN a ELSE b
Min(a, b) == IF a <= b THEN a ELSE b

(* ============================ RateLimiter ============================= *)

\* time_window in ticks
WindowTicks == time_window * TicksPerSecond

\* Rational quantities (min_interval, wait_time) are stored times Scale.
Scale == IF max_requests > 0 THEN max_requests ELSE 1

\* self.min_interval = time_window / max_requests if max_requests > 0 else 0
\* (times Scale)
min_interval == IF max_requests > 0 THEN WindowTicks ELSE 0

PruneClears(reqs, t) == <<>>

\* while self.requests and now - self.requests[0] >= self.time_window: popleft()
RECURSIVE Prune(_, _)
Prune(reqs, t) ==
    IF reqs # <<>> /\ t - Head(reqs) >= WindowTicks
    THEN Prune(Tail(reqs), t)
    ELSE reqs

WindowWaitNoMargin(reqs, t) ==
    IF Len(reqs) >= max_requests
    THEN Scale * (WindowTicks - (t - Head(reqs)))
    ELSE 0

\* wait_time = self.time_window - (now - oldest_request) + 0.5   (times Scale)
WindowWait(reqs, t) ==
    IF Len(reqs) >= max_requests
    THEN Scale * (WindowTicks - (t - Head(reqs)) + 1)
    ELSE 0

\* min_wait = self.min_interval - time_since_last   (times Scale)
MinWait(reqs, t) == min_interval - Scale * (t - reqs[Len(reqs)])

CombineWaitsMin(window_wait, min_wait) == Min(window_wait, min_wait)

\* wait_time = max(wait_time, min_wait)
CombineWaits(window_wait, min_wait) == Max(window_wait, min_wait)

WaitTimeWindowOnly(reqs, t) == WindowWait(reqs, t)

\* the wait computed by lines 42-61, for the pruned deque
WaitTime(reqs, t) ==
    IF reqs # <<>>
    THEN CombineWaits(WindowWait(reqs, t), MinWait(reqs, t))
    ELSE WindowWait(reqs, t)

\* requests[0] of an empty deque: len(requests) >= max_requests holds with
\* max_requests = 0 and nothing recorded
RaisesIndexError(reqs) == Len(reqs) >= max_requests /\ reqs = <<>>

\* deque.clear()
ResetClear(reqs) == <<>>

NoCapacity == [value |-> 0, at |-> 0, n |-> 0, dropped |-> 0]

InitLimiter ==
    /\ clock = 0
    /\ max_requests \in 0..MaxRequests
    /\ time_window \in 1..MaxWindow
    /\ requests = <<>>
    /\ lock = NoThread
    /\ pc = [t \in Threads |-> "idle"]
    /\ now = 0
    /\ wait_time = 0
    /\ end_time = 0
    /\ last_wait = [t \in Threads |-> 0]
    /\ reserved = <<>>
    /\ capacity = NoCapacity
    /\ just_reset = FALSE

\* time passes
Tick ==
    /\ clock < MaxTime
    /\ clock' = clock + 1
    /\ UNCHANGED <<max_requests, time_window, requests, lock, pc, now,
                   wait_time, end_time, last_wait, reserved, capacity,
                   just_reset>>

\* wait_if_needed, lines 40-70: take the lock, read the clock, prune, compute
\* the wait and either start waiting or go on to record the request
WaitIfNeededEnter(t) ==
    /\ pc[t] = "idle"
    /\ lock = NoThread
    /\ LET pruned == Prune(requests, clock) IN
       /\ requests' = pruned
       /\ now' = clock
       /\ IF RaisesIndexError(pruned)
          THEN /\ pc' = [pc EXCEPT ![t] = "raised"]
               /\ lock' = NoThread
               /\ UNCHANGED <<wait_time, end_time>>
          ELSE /\ lock' = t
               /\ wait_time' = WaitTime(pruned, clock)
               /\ IF WaitTime(pruned, clock) > 0
                  THEN /\ pc' = [pc EXCEPT ![t] = "waiting"]
                       /\ end_time' = Scale * clock + WaitTime(pruned, clock)
                  ELSE /\ pc' = [pc EXCEPT ![t] = "record"]
                       /\ UNCHANGED end_time
    /\ just_reset' = FALSE
    /\ UNCHANGED <<clock, max_requests, time_window, last_wait, reserved, capacity>>

\* _wait_with_feedback returns once time.time() >= end_time; lines 72-75 then
\* read the clock again and prune
WaitIfNeededWake(t) ==
    /\ pc[t] = "waiting"
    /\ lock = t
    /\ Scale * clock >= end_time
    /\ now' = clock
    /\ requests' = Prune(requests, clock)
    /\ pc' = [pc EXCEPT ![t] = "record"]
    /\ UNCHANGED <<clock, max_requests, time_window, lock, wait_time,
                   end_time, last_wait, reserved, capacity,
                   just_reset>>

\* lines 77-79: self.requests.append(time.time()); return wait_time; the
\* with-block releases the lock
WaitIfNeededRecord(t) ==
    /\ pc[t] = "record"
    /\ lock = t
    /\ requests' = Append(requests, clock)
    /\ reserved' = Append(reserved, clock)
    /\ last_wait' = [last_wait EXCEPT ![t] = wait_time]
    /\ lock' = NoThread
    /\ pc' = [pc EXCEPT ![t] = "idle"]
    /\ UNCHANGED <<clock, max_requests, time_window, now, wait_time, end_time,
                   capacity,
                   just_reset>>

\* the caller of a call that raised goes on
WaitIfNeededRaised(t) ==
    /\ pc[t] = "raised"
    /\ pc' = [pc EXCEPT ![t] = "idle"]
    /\ UNCHANGED <<clock, max_requests, time_window, requests, lock, now,
                   wait_time, end_time, last_wait, reserved, capacity,
                   just_reset>>

\* get_remaining_capacity is called and reaches `with self.lock`
GetRemainingCapacityCall(t) ==
    /\ pc[t] = "idle"
    /\ pc' = [pc EXCEPT ![t] = "capacity"]
    /\ UNCHANGED <<clock, max_requests, time_window, requests, lock, now,
                   wait_time, end_time, last_wait, reserved, capacity,
                   just_reset>>

\* get_remaining_capacity, lines 93-100: with the lock, prune the deque in
\* place and return max(0, max_requests - len(requests))
GetRemainingCapacityReturn(t) ==
    /\ pc[t] = "capacity"
    /\ lock = NoThread
    /\ requests' = Prune(requests, clock)
    /\ capacity' = [value |-> Max(0, max_requests - Len(Prune(requests, clock))),
                    at |-> clock, n |-> Len(reserved),
                    dropped |-> Len(requests) - Len(Prune(requests, clock))]
    /\ pc' = [pc EXCEPT ![t] = "idle"]
    /\ UNCHANGED <<clock, max_requests, time_window, lock, now, wait_time,
                   end_time, last_wait, reserved, just_reset>>

\* reset is called and reaches `with self.lock`
ResetCall(t) ==
    /\ pc[t] = "idle"
    /\ pc' = [pc EXCEPT ![t] = "reset"]
    /\ UNCHANGED <<clock, max_requests, time_window, requests, lock, now,
                   wait_time, end_time, last_wait, reserved, capacity,
                   just_reset>>

\* reset, lines 104-105 (reset_rate_limiter calls it on the global instance):
\* with the lock, self.requests.clear()
ResetReturn(t) ==
    /\ pc[t] = "reset"
    /\ lock = NoThread
    /\ requests' = ResetClear(requests)
    /\ just_reset' = TRUE
    /\ pc' = [pc EXCEPT ![t] = "idle"]
    /\ UNCHANGED <<clock, max_requests, time_window, lock, now, wait_time,
                   end_time, last_wait, reserved, capacity>>

LimiterStep ==
    \/ Tick
    \/ \E t \in Threads : WaitIfNeededEnter(t)
    \/ \E t \in Threads : WaitIfNeededWake(t)
    \/ \E t \in Threads : WaitIfNeededRecord(t)
    \/ \E t \in Threads : WaitIfNeededRaised(t)

(* ====================== call_gemini_with_retry ======================= *)

NoHint == -1
NoError == [words |-> <<>>, retry_in |-> NoHint, retry_delay_seconds |-> NoHint]
NoText == "<none>"

\* An exception message: its words, the number after "retry in" and the number
\* after "retry_delay ... seconds:" (both in ticks, NoHint when absent).
Msg(w, r, d) == [words |-> w, retry_in |-> r, retry_delay_seconds |-> d]

ErrorMessages ==
    { Msg(<<"429", "Resource", "exhausted">>, NoHint, NoHint),
      Msg(<<"429", "Resource", "exhausted">>, 3, NoHint),
      Msg(<<"Quota", "exceeded">>, NoHint, 4),
      Msg(<<"Failed", "to", "generate">>, NoHint, NoHint),
      Msg(<<"500", "Internal", "error">>, NoHint, NoHint),
      Msg(<<"API", "key", "invalid">>, 3, NoHint) }

\* str.lower() on the words of the vocabulary
Lower(w) ==
    CASE w = "Resource" -> "resource"
      [] w = "Quota" -> "quota"
      [] w = "Failed" -> "failed"
      [] w = "Internal" -> "internal"
      [] w = "API" -> "api"
      [] OTHER -> w

\* `marker in word`, on the words of the vocabulary
HasSubstring(w, marker) ==
    \/ w = marker
    \/ marker = "rate" /\ w = "generate"

\* `marker in error_str`
Contains(words, marker) ==
    \E i \in 1..Len(words) : HasSubstring(words[i], marker)

\* `marker in error_str.lower()`
ContainsLower(words, marker) ==
    \E i \in 1..Len(words) : HasSubstring(Lower(words[i]), marker)

IsTransientAlways(e) == TRUE

\* line 46: "429" in error_str or "quota" in error_str.lower() or "rate" in error_str.lower()
IsTransient(e) ==
    \/ Contains(e.words, "429")
    \/ ContainsLower(e.words, "quota")
    \/ ContainsLower(e.words, "rate")

\* extract_retry_delay: the first pattern that matches, plus the 1.0 s buffer
ExtractRetryDelay(e) ==
    IF e.retry_in # NoHint THEN e.retry_in + TicksPerSecond
    ELSE IF e.retry_delay_seconds # NoHint THEN e.retry_delay_seconds + TicksPerSecond
    ELSE NoHint

BackoffBase == 15
BackoffCap == 60

RetryDelayUncapped(e, a) ==
    IF ExtractRetryDelay(e) # NoHint
    THEN ExtractRetryDelay(e)
    ELSE BackoffBase * (2 ^ a) * TicksPerSecond

\* lines 48-52, in ticks
RetryDelay(e, a) ==
    IF ExtractRetryDelay(e) # NoHint
    THEN ExtractRetryDelay(e)
    ELSE Min(BackoffBase * (2 ^ a), BackoffCap) * TicksPerSecond

InRangeOneMore(a, n) == a <= n

\* for attempt in range(max_retries)
InRange(a, n) == a < n

\* line 54: if attempt < max_retries - 1
MayRetry(a, n) == a < n - 1

Texts == {"{full}", "{}", "garbage"}

Ok(text) == [ok |-> TRUE, text |-> text, error |-> NoError]
Failed(e) == [ok |-> FALSE, text |-> NoText, error |-> e]

InitRetry ==
    /\ r_pc = "idle"
    /\ max_retries = 0
    /\ attempt = 0
    /\ last_error = NoError
    /\ retry_delay = 0
    /\ response_text = NoText
    /\ raised_error = NoError
    /\ outcomes = <<>>
    /\ slept = <<>>

\* the loop header, reached with loop variable a: another attempt, or
\* `raise last_error` once the range is exhausted
LoopHead(a, err) ==
    /\ attempt' = a
    /\ IF InRange(a, max_retries)
       THEN r_pc' = "try" /\ raised_error' = NoError
       ELSE r_pc' = "raised" /\ raised_error' = err

\* call_gemini_with_retry(model, prompt, generation_config, max_retries=n)
CallStart(n) ==
    /\ r_pc = "idle"
    /\ max_retries' = n
    /\ last_error' = NoError
    /\ retry_delay' = 0
    /\ response_text' = NoText
    /\ outcomes' = <<>>
    /\ slept' = <<>>
    /\ attempt' = 0
    /\ IF InRange(0, n)
       THEN r_pc' = "try" /\ raised_error' = NoError
       ELSE r_pc' = "raised" /\ raised_error' = NoError

\* one pass of the loop body: model.generate_content either returns a
\* response or raises e
Attempt(o) ==
    /\ r_pc = "try"
    /\ outcomes' = Append(outcomes, o)
    /\ IF o.ok
       THEN /\ r_pc' = "returned"
            /\ response_text' = o.text
            /\ UNCHANGED <<attempt, last_error, retry_delay, raised_error>>
       ELSE /\ last_error' = o.error
            /\ UNCHANGED response_text
            /\ IF IsTransient(o.error)
               THEN IF MayRetry(attempt, max_retries)
                    THEN /\ r_pc' = "sleep"
                         /\ retry_delay' = RetryDelay(o.error, attempt)
                         /\ UNCHANGED <<attempt, raised_error>>
                    ELSE /\ retry_delay' = RetryDelay(o.error, attempt)
                         /\ LoopHead(attempt + 1, o.error)
               ELSE /\ r_pc' = "raised"
                    /\ raised_error' = o.error
                    /\ UNCHANGED <<attempt, retry_delay>>
    /\ UNCHANGED <<max_retries, slept>>

\* time.sleep(retry_delay); continue
SleepDone ==
    /\ r_pc = "sleep"
    /\ slept' = Append(slept, retry_delay)
    /\ LoopHead(attempt + 1, last_error)
    /\ UNCHANGED <<max_retries, last_error, retry_delay, response_text, outcomes>>

\* the caller takes the result and the call's frame is gone
CallEnd ==
    /\ r_pc \in {"returned", "raised"}
    /\ r_pc' = "idle"
    /\ max_retries' = 0
    /\ attempt' = 0
    /\ last_error' = NoError
    /\ retry_delay' = 0
    /\ response_text' = NoText
    /\ raised_error' = NoError
    /\ outcomes' = <<>>
    /\ slept' = <<>>

Outcomes == {Ok(t) : t \in Texts} \cup {Failed(e) : e \in ErrorMessages}

MaxRetriesBound == 5

RetryStep ==
    \/ \E n \in 0..MaxRetriesBound : CallStart(n)
    \/ \E o \in Outcomes : Attempt(o)
    \/ SleepDone
    \/ CallEnd

(* ============================== APICache ============================== *)

MaxTtl == 1
MaxCacheTime == 3

\* os.getenv("LLM_MODEL", ...) and the agents' generation config: a dict is a
\* sequence of <<name, value>> items in insertion order, names distinct
LlmModel == "gemini-2.0-flash-exp"
GenerationConfig == << <<"temperature", "0.3">>,
                       <<"response_mime_type", "application/json">> >>

\* the order of the item names as strings
KeyRank(name) ==
    CASE name = "max_output_tokens" -> 1
      [] name = "response_mime_type" -> 2
      [] name = "temperature" -> 3

SortKeysNone(config) == config

\* json.dumps(..., sort_keys=True): the items in the order of their names
SortKeys(config) ==
    SortSeq(config, LAMBDA a, b : KeyRank(a[1]) < KeyRank(b[1]))

\* _get_cache_key: the sha256 digest of the JSON text of prompt, model and
\* config with sorted keys; distinct texts have distinct digests
CacheKey(prompt, model, config) ==
    [prompt |-> prompt, model |-> model, config |-> SortKeys(config)]

HasFile(files, key) == \E e \in files : e.key = key
FileOf(files, key) == CHOOSE e \in files : e.key = key

CacheGetStrict(files, key, t) ==
    IF ~HasFile(files, key) THEN NoText
    ELSE IF ~FileOf(files, key).readable THEN NoText
    ELSE IF t - FileOf(files, key).timestamp >= ttl THEN NoText
    ELSE FileOf(files, key).response

\* APICache.get, the value returned (NoText for None)
CacheGet(files, key, t) ==
    IF ~HasFile(files, key) THEN NoText
    ELSE IF ~FileOf(files, key).readable THEN NoText
    ELSE IF t - FileOf(files, key).timestamp > ttl THEN NoText
    ELSE FileOf(files, key).response

CacheAfterGetKeepsCorrupt(files, key, t) ==
    IF HasFile(files, key) /\ FileOf(files, key).readable
                           /\ CacheGet(files, key, t) = NoText
    THEN files \ {FileOf(files, key)}
    ELSE files

\* APICache.get, the files it leaves: a corrupt or expired file is unlinked
CacheAfterGet(files, key, t) ==
    IF HasFile(files, key) /\ CacheGet(files, key, t) = NoText
    THEN files \ {FileOf(files, key)}
    ELSE files

CacheAfterSetKeepsOld(files, key, t, text, write) ==
    IF HasFile(files, key) \/ write # "ok"
    THEN files
    ELSE files \cup {[key |-> key, timestamp |-> t, response |-> text, readable |-> TRUE]}

\* APICache.set: open(cache_file, 'w') and json.dump.  A failing open leaves
\* the directory as it was, a failing dump leaves a truncated file, and both
\* are swallowed.
CacheAfterSet(files, key, t, text, write) ==
    CASE write = "ok" ->
            {e \in files : e.key # key} \cup
            {[key |-> key, timestamp |-> t, response |-> text, readable |-> TRUE]}
      [] write = "dump_failed" ->
            {e \in files : e.key # key} \cup
            {[key |-> key, timestamp |-> t, response |-> NoText, readable |-> FALSE]}
      [] OTHER -> files

WriteResults == {"ok", "open_failed", "dump_failed"}

CacheAfterClearKeepsCorrupt(files) == {e \in files : ~e.readable}

\* APICache.clear: every file of cache_dir is unlinked
CacheAfterClear(files) == {}

EntryStateStrict(e, t) ==
    IF ~e.readable THEN "expired"
    ELSE IF t - e.timestamp < ttl THEN "valid" ELSE "expired"

\* get_stats, lines 116-125: how one file is counted; a file that cannot be
\* loaded is counted as expired
EntryState(e, t) ==
    IF ~e.readable THEN "expired"
    ELSE IF t - e.timestamp <= ttl THEN "valid" ELSE "expired"

\* get_stats, the loop over the files with its two counters
RECURSIVE GetStatsLoop(_, _, _)
GetStatsLoop(files, t, acc) ==
    IF files = {} THEN acc
    ELSE LET e == CHOOSE x \in files : TRUE IN
         GetStatsLoop(files \ {e}, t,
                      IF EntryState(e, t) = "valid"
                      THEN [acc EXCEPT !.valid_entries = @ + 1]
                      ELSE [acc EXCEPT !.expired_entries = @ + 1])

\* APICache.get_stats: the dict returned
GetStats(files, t) ==
    GetStatsLoop(files, t, [total_entries |-> Cardinality(files),
                            valid_entries |-> 0, expired_entries |-> 0])

\* the requests looked up and the requests stored in the cache specification
Request(prompt, model, config) == [prompt |-> prompt, model |-> model, config |-> config]
StoreRequests ==
    { Request("prompt1", LlmModel, GenerationConfig),
      Request("prompt1", LlmModel, <<GenerationConfig[2], GenerationConfig[1]>>),
      Request("prompt2", LlmModel, GenerationConfig) }
LookupRequests ==
    StoreRequests \cup
    { Request("prompt1", "gemini-1.5-flash", GenerationConfig),
      Request("prompt1", LlmModel, << <<"temperature", "0.7">>, GenerationConfig[2] >>),
      Request("prompt1", LlmModel, <<GenerationConfig[1]>>) }

KeyOf(r) == CacheKey(r.prompt, r.model, r.config)

\* what a call found under its key before it acted
Met(files, key, t) ==
    IF ~HasFile(files, key) THEN "absent"
    ELSE IF ~FileOf(files, key).readable THEN "corrupt"
    ELSE IF t - FileOf(files, key).timestamp > ttl THEN "expired"
    ELSE "fresh"

NoStats == [total_entries |-> -1, valid_entries |-> -1, expired_entries |-> -1]

NoOp == [op |-> "none", request |-> Request("", "", <<>>), key |-> [none |-> TRUE],
         result |-> NoText, text |-> NoText, write |-> "", met |-> "",
         stats |-> NoStats]

\* cache.get(prompt, model, config)
CacheGetCall(r) ==
    /\ cache_op' = [op |-> "get", request |-> r, key |-> KeyOf(r),
                    result |-> CacheGet(cache_files, KeyOf(r), clock),
                    text |-> NoText, write |-> "",
                    met |-> Met(cache_files, KeyOf(r), clock), stats |-> NoStats]
    /\ cache_files' = CacheAfterGet(cache_files, KeyOf(r), clock)
    /\ UNCHANGED <<ttl, cache_calls, cache_stored, cacheFrame>>

\* cache.set(prompt, model, config, response): returns None, whatever the write did
CacheSetCall(r, text, write) ==
    /\ cache_op' = [op |-> "set", request |-> r, key |-> KeyOf(r),
                    result |-> NoText, text |-> text, write |-> write,
                    met |-> Met(cache_files, KeyOf(r), clock), stats |-> NoStats]
    /\ cache_files' = CacheAfterSet(cache_files, KeyOf(r), clock, text, write)
    /\ UNCHANGED <<ttl, cache_calls, cache_stored, cacheFrame>>

\* cache.clear()
CacheClearCall ==
    /\ cache_files # {}
    /\ cache_op' = [NoOp EXCEPT !.op = "clear"]
    /\ cache_files' = CacheAfterClear(cache_files)
    /\ UNCHANGED <<ttl, cache_calls, cache_stored, cacheFrame>>

\* cache.get_stats(): the files are opened for reading only
CacheGetStatsCall ==
    /\ cache_op' = [NoOp EXCEPT !.op = "stats", !.stats = GetStats(cache_files, clock)]
    /\ UNCHANGED <<cache_files, ttl, cache_calls, cache_stored, cacheFrame>>

(* ------------- APICache.get and set, statement by statement ----------- *)

\* the requests concurrent callers look up and store, and their keys
RaceRequests == StoreRequests
RaceKeys == {KeyOf(r) : r \in RaceRequests}
RaceTexts == {"{full}", "garbage"}

NoCall == [pc |-> "none", key |-> [none |-> TRUE], text |-> NoText, at |-> 0,
           orphan |-> FALSE, result |-> NoText]
NoStored == [text |-> NoText, at |-> -1]

\* the call of thread t is over: it returned res, or raised
CallOver(t, how, res) ==
    cache_calls' = [cache_calls EXCEPT ![t] = [NoCall EXCEPT !.pc = how, !.result = res]]

\* cache_file.unlink() of an existing file: the name is gone, and a set() that
\* has the file open goes on writing to a file without a name
Unlinked(cs, t, key) ==
    [u \in Threads |->
        IF u # t /\ cs[u].pc = "s_dump" /\ cs[u].key = key
        THEN [cs[u] EXCEPT !.orphan = TRUE]
        ELSE cs[u]]

\* get, lines 51-55: the key, then `if not cache_file.exists(): return None`
RaceGetExists(t, r) ==
    /\ cache_calls[t].pc \in {"none", "returned", "raised"}
    /\ IF HasFile(cache_files, KeyOf(r))
       THEN cache_calls' = [cache_calls EXCEPT ![t] =
                               [NoCall EXCEPT !.pc = "g_read", !.key = KeyOf(r)]]
       ELSE CallOver(t, "returned", NoText)
    /\ UNCHANGED <<cache_files, ttl, cache_op, cache_stored, cacheFrame>>

\* get, lines 57-66: open and json.load, then the expiry test on what was read
RaceGetRead(t) ==
    /\ cache_calls[t].pc = "g_read"
    /\ LET k == cache_calls[t].key IN
       IF ~HasFile(cache_files, k) \/ ~FileOf(cache_files, k).readable
       THEN cache_calls' = [cache_calls EXCEPT ![t].pc = "g_except"]
       ELSE IF clock - FileOf(cache_files, k).timestamp > ttl
       THEN cache_calls' = [cache_calls EXCEPT ![t].pc = "g_unlink"]
       ELSE CallOver(t, "returned", FileOf(cache_files, k).response)
    /\ UNCHANGED <<cache_files, ttl, cache_op, cache_stored, cacheFrame>>

\* get, lines 62-63: cache_file.unlink() of the expired entry; return None
RaceGetUnlinkExpired(t) ==
    /\ cache_calls[t].pc = "g_unlink"
    /\ LET k == cache_calls[t].key IN
       IF HasFile(cache_files, k)
       THEN /\ cache_files' = {e \in cache_files : e.key # k}
            /\ cache_calls' = [Unlinked(cache_calls, t, k) EXCEPT
                                   ![t] = [NoCall EXCEPT !.pc = "returned"]]
       ELSE \* FileNotFoundError, caught by line 67
            /\ cache_calls' = [cache_calls EXCEPT ![t].pc = "g_except"]
            /\ UNCHANGED cache_files
    /\ UNCHANGED <<ttl, cache_op, cache_stored, cacheFrame>>

\* get, line 69: `if cache_file.exists()` in the except branch
RaceGetExceptExists(t) ==
    /\ cache_calls[t].pc = "g_except"
    /\ IF HasFile(cache_files, cache_calls[t].key)
       THEN cache_calls' = [cache_calls EXCEPT ![t].pc = "g_except_unlink"]
       ELSE CallOver(t, "returned", NoText)
    /\ UNCHANGED <<cache_files, ttl, cache_op, cache_stored, cacheFrame>>

\* get, lines 70-71: cache_file.unlink() in the except branch; return None.
\* When the file is gone by now, FileNotFoundError leaves get.
RaceGetExceptUnlink(t) ==
    /\ cache_calls[t].pc = "g_except_unlink"
    /\ LET k == cache_calls[t].key IN
       IF HasFile(cache_files, k)
       THEN /\ cache_files' = {e \in cache_files : e.key # k}
            /\ cache_calls' = [Unlinked(cache_calls, t, k) EXCEPT
                                   ![t] = [NoCall EXCEPT !.pc = "returned"]]
       ELSE /\ CallOver(t, "raised", NoText)
            /\ UNCHANGED cache_files
    /\ UNCHANGED <<ttl, cache_op, cache_stored, cacheFrame>>

\* set, lines 84-96: cache_data with timestamp time.time(), then
\* open(cache_file, 'w'), which creates the file or truncates it
RaceSetOpen(t, r, text) ==
    /\ cache_calls[t].pc \in {"none", "returned", "raised"}
    /\ cache_calls' = [cache_calls EXCEPT ![t] =
                          [NoCall EXCEPT !.pc = "s_dump", !.key = KeyOf(r),
                                         !.text = text, !.at = clock]]
    /\ cache_files' = CacheAfterSet(cache_files, KeyOf(r), clock, text, "dump_failed")
    /\ cache_stored' = [cache_stored EXCEPT ![KeyOf(r)] = NoStored]
    /\ UNCHANGED <<ttl, cache_op, cacheFrame>>

\* set, lines 95-99: open raises; the exception is swallowed and set returns
RaceSetOpenFails(t) ==
    /\ cache_calls[t].pc \in {"none", "returned", "raised"}
    /\ CallOver(t, "returned", NoText)
    /\ UNCHANGED <<cache_files, ttl, cache_op, cache_stored, cacheFrame>>

\* set, lines 96-99: json.dump raises; the truncated file stays behind
RaceSetDumpFails(t) ==
    /\ cache_calls[t].pc = "s_dump"
    /\ CallOver(t, "returned", NoText)
    /\ UNCHANGED <<cache_files, ttl, cache_op, cache_stored, cacheFrame>>

\* set, lines 96-97: json.dump and the close of the file; set returns None
RaceSetDump(t) ==
    /\ cache_calls[t].pc = "s_dump"
    /\ LET c == cache_calls[t] IN
       /\ cache_files' = IF c.orphan
                         THEN cache_files
                         ELSE CacheAfterSet(cache_files, c.key, c.at, c.text, "ok")
       /\ cache_stored' = [cache_stored EXCEPT ![c.key] = [text |-> c.text, at |-> c.at]]
    /\ CallOver(t, "returned", NoText)
    /\ UNCHANGED <<ttl, cache_op, cacheFrame>>

(* ================== rate_limiter.get_rate_limiter ===================== *)

\* None
NoLimiter == [id |-> 0, max_requests |-> 0, time_window |-> 0]

NoGetCall == [pc |-> "none", max_requests |-> 0, time_window |-> 0,
              result |-> NoLimiter]

\* what a call of get_rate_limiter leaves alone
singletonFrame == <<limVars, retryVars, cacheVars, agentVars, graphVars, appVars,
                    histVars, ui_error, ui_message>>

\* get_rate_limiter(n, w), line 125: `if _global_limiter is None`
GetRateLimiterTest(t, n, w) ==
    /\ g_calls[t].pc \in {"none", "returned"}
    /\ g_calls' = [g_calls EXCEPT ![t] =
                     [pc |-> IF global_limiter = NoLimiter THEN "create" ELSE "return",
                      max_requests |-> n, time_window |-> w, result |-> NoLimiter]]
    /\ UNCHANGED <<global_limiter, g_created, singletonFrame>>

\* line 126: _global_limiter = RateLimiter(max_requests, time_window)
GetRateLimiterCreate(t) ==
    /\ g_calls[t].pc = "create"
    /\ LET new == [id |-> Len(g_created) + 1,
                   max_requests |-> g_calls[t].max_requests,
                   time_window |-> g_calls[t].time_window]
       IN /\ global_limiter' = new
          /\ g_created' = Append(g_created, new)
    /\ g_calls' = [g_calls EXCEPT ![t].pc = "return"]
    /\ UNCHANGED singletonFrame

\* line 128: return _global_limiter
GetRateLimiterReturn(t) ==
    /\ g_calls[t].pc = "return"
    /\ g_calls' = [g_calls EXCEPT ![t].pc = "returned", ![t].result = global_limiter]
    /\ UNCHANGED <<global_limiter, g_created, singletonFrame>>

(* ==================== app.get_user_friendly_error ==================== *)

MaxPhrases == 2

\* the phrases exception texts are made of here: the markers the function
\* looks for, some in the upper case the API uses, and phrases without marker
Phrases ==
    {"API_KEY_INVALID", "API key not valid", "RESOURCE_EXHAUSTED", "rate limit",
     "Quota", "permission", "Forbidden", "Connection", "network", "timeout",
     "Model not found", "400", "401", "Unauthorized", "429", "500", "503",
     "Internal error", "list index out of range"}

\* str.lower() on a phrase
LowerPhrase(ph) ==
    CASE ph = "API_KEY_INVALID" -> "api_key_invalid"
      [] ph = "API key not valid" -> "api key not valid"
      [] ph = "RESOURCE_EXHAUSTED" -> "resource_exhausted"
      [] ph = "Quota" -> "quota"
      [] ph = "Forbidden" -> "forbidden"
      [] ph = "Connection" -> "connection"
      [] ph = "Model not found" -> "model not found"
      [] ph = "Unauthorized" -> "unauthorized"
      [] ph = "Internal error" -> "internal error"
      [] OTHER -> ph

\* line 808: error_str = str(error).lower()
ErrorStr(text) == {LowerPhrase(ph) : ph \in text}

\* `marker in error_str`
InErrorStr(marker, text) == marker \in ErrorStr(text)

\* the exception texts handed to the function
ErrorTexts == {t \in SUBSET Phrases : Cardinality(t) <= MaxPhrases}

get_user_friendly_error_raw(text) ==
    IF InErrorStr("quota", text)
    THEN "Rate limit reached. Please wait a moment and try again."
    ELSE CHOOSE ph \in text \cup {"An error occurred"} : TRUE

\* get_user_friendly_error, lines 808-841
get_user_friendly_error(text) ==
    IF InErrorStr("api_key_invalid", text) \/ InErrorStr("api key not valid", text)
    THEN "Invalid API key. Please check your API key in the sidebar."
    ELSE IF \/ InErrorStr("resource_exhausted", text)
            \/ InErrorStr("rate limit", text)
            \/ InErrorStr("quota", text)
    THEN "Rate limit reached. Please wait a moment and try again."
    ELSE IF InErrorStr("permission", text) \/ InErrorStr("forbidden", text)
    THEN "Permission denied. Please check your API key permissions."
    ELSE IF \/ InErrorStr("connection", text)
            \/ InErrorStr("network", text)
            \/ InErrorStr("timeout", text)
    THEN "Connection error. Please check your internet connection."
    ELSE IF InErrorStr("model not found", text)
    THEN "Model not available. Please check the model name in settings."
    ELSE IF InErrorStr("400", text)
    THEN "Invalid request. Please check your input and try again."
    ELSE IF InErrorStr("401", text) \/ InErrorStr("unauthorized", text)
    THEN "Authentication failed. Please verify your API key."
    ELSE IF InErrorStr("429", text)
    THEN "Too many requests. Please wait and try again."
    ELSE IF InErrorStr("500", text) \/ InErrorStr("503", text)
    THEN "Service temporarily unavailable. Please try again later."
    ELSE "An error occurred. Please try again or check your configuration."

\* st.error(get_user_friendly_error(e)) for an exception e
ShowError(text) ==
    /\ ui_error' = text
    /\ ui_message' = get_user_friendly_error(text)
    /\ UNCHANGED <<global_limiter, g_calls, g_created>>
    /\ UNCHANGED <<limVars, retryVars, cacheVars, agentVars, graphVars, appVars, histVars>>

(* ============================ AgentState ============================== *)

Tickets == {"PROJ-1"}

\* the fields annotated with operator.add, and the others
AppendFields == {"acceptance_criteria_gaps", "risk_areas", "test_cases",
                 "coverage_gaps", "clarification_questions", "agent_logs"}
ReplaceFields == {"ticket_info", "extracted_requirements", "impacted_modules",
                  "dependencies", "qa_roadmap", "current_agent", "processing_time"}

NoState == [none |-> TRUE]

create_initial_state_seeded(ticket) ==
    [ticket_info |-> ticket,
     extracted_requirements |-> <<>>,
     acceptance_criteria_gaps |-> <<>>,
     impacted_modules |-> <<>>,
     dependencies |-> <<>>,
     qa_roadmap |-> <<>>,
     risk_areas |-> <<>>,
     test_cases |-> <<>>,
     coverage_gaps |-> <<"seed">>,
     clarification_questions |-> <<>>,
     agent_logs |-> <<>>,
     current_agent |-> "",
     processing_time |-> 0]

create_initial_state(ticket) ==
    [ticket_info |-> ticket,
     extracted_requirements |-> <<>>,
     acceptance_criteria_gaps |-> <<>>,
     impacted_modules |-> <<>>,
     dependencies |-> <<>>,
     qa_roadmap |-> <<>>,
     risk_areas |-> <<>>,
     test_cases |-> <<>>,
     coverage_gaps |-> <<>>,
     clarification_questions |-> <<>>,
     agent_logs |-> <<>>,
     current_agent |-> "",
     processing_time |-> 0]

NumStages == 5
Stages == 1..NumStages

\* self.name of the five agents, in workflow order
AgentName(i) ==
    CASE i = 1 -> "TicketReaderAgent"
      [] i = 2 -> "ContextBuilderAgent"
      [] i = 3 -> "TestStrategyAgent"
      [] i = 4 -> "TestGeneratorAgent"
      [] i = 5 -> "CoverageAuditorAgent"

\* the node names of _build_workflow, in edge order
NodeName(i) ==
    CASE i = 1 -> "ticket_reader"
      [] i = 2 -> "context_builder"
      [] i = 3 -> "test_strategy"
      [] i = 4 -> "test_generator"
      [] i = 5 -> "coverage_auditor"

\* the action each agent logs
LogAction(i) ==
    CASE i = 1 -> "extracted_requirements"
      [] i = 2 -> "identified_context"
      [] i = 3 -> "created_qa_roadmap"
      [] i = 4 -> "generated_test_cases"
      [] i = 5 -> "audited_coverage"

NoCategory == [category |-> "", scenarios |-> <<>>]

\* the part of the state each agent's prompt is built from (c: the category
\* of qa_roadmap.items() for test_generator)
BuildPrompt(i, st, c) ==
    [stage |-> i,
     ticket |-> st.ticket_info,
     requirements |-> IF i >= 2 THEN st.extracted_requirements ELSE <<>>,
     modules |-> IF i = 3 THEN st.impacted_modules ELSE <<>>,
     dependencies |-> IF i = 3 THEN st.dependencies ELSE <<>>,
     risks |-> IF i \in {3, 5} THEN st.risk_areas ELSE <<>>,
     category |-> IF i = 4 THEN st.qa_roadmap[c] ELSE NoCategory,
     test_cases |-> IF i = 5 THEN st.test_cases ELSE <<>>]

\* the object a complete answer of stage i holds
FullResult(i) ==
    CASE i = 1 -> [requirements |-> <<"req1">>,
                   ac_gaps |-> <<"gap1">>,
                   clarification_questions |-> <<"q1">>]
      [] i = 2 -> [impacted_modules |-> <<"mod1">>,
                   dependencies |-> <<"dep1">>,
                   risk_areas |-> <<"risk1">>]
      [] i = 3 -> [qa_roadmap |->
                      << [category |-> "Happy Path", scenarios |-> <<"s1">>],
                         [category |-> "Negative Testing", scenarios |-> <<"s2">>] >>]
      [] i = 4 -> [test_cases |-> << [title |-> "tc", priority |-> "P1"] >>]
      [] i = 5 -> [coverage_gaps |-> <<"cgap1">>,
                   additional_questions |-> <<"q2">>,
                   coverage_score |-> "Good"]

MaxCases == 2

\* a complete answer in which test_generator is given MaxCases test cases
ManyResult(i) ==
    IF i = 4
    THEN [test_cases |-> [n \in 1..MaxCases |-> [title |-> "tc", priority |-> "P2"]]]
    ELSE FullResult(i)

NoResult == [ok |-> FALSE, present |-> {}, val |-> [none |-> TRUE]]

\* json.loads of a response text of stage i: "garbage" is no JSON, "{}" is
\* the empty object, "{full}" the object with every key the stage asks for
JsonLoads(i, text) ==
    CASE text = "{full}" -> [ok |-> TRUE, present |-> DOMAIN FullResult(i), val |-> FullResult(i)]
      [] text = "{many}" -> [ok |-> TRUE, present |-> DOMAIN ManyResult(i), val |-> ManyResult(i)]
      [] text = "{}" -> [ok |-> TRUE, present |-> {}, val |-> [none |-> TRUE]]
      [] OTHER -> NoResult

\* result.get(key, default)
Get(r, k, d) == IF k \in r.present THEN r.val[k] ELSE d

LogEntry(i) == [agent |-> AgentName(i), action |-> LogAction(i)]

(* A frame holds what a node's statements read and write: its local state
   dict, the channel values (a list mutated in place is the channel's own
   list when the node was handed that object), and the history. *)
Frame == [local |-> local, chan |-> chan, shared |-> shared,
          fresh |-> fresh, latest |-> latest]

\* state[f] = v
Assign(fr, f, v) ==
    [fr EXCEPT !.local[f] = v,
               !.shared = @ \ {f},
               !.fresh = IF f \in AppendFields THEN [@ EXCEPT ![f] = v] ELSE @,
               !.latest = IF f \in ReplaceFields THEN [@ EXCEPT ![f] = v] ELSE @]

\* state[f].extend(items), state[f].append(item)
Extend(fr, f, items) ==
    [fr EXCEPT !.local[f] = @ \o items,
               !.chan = IF channel_aliasing /\ f \in fr.shared
                        THEN [@ EXCEPT ![f] = @ \o items]
                        ELSE @,
               !.fresh[f] = @ \o items]

\* log_agent_action(state, self.name, action, details)
Log(fr, i) == Extend(fr, "agent_logs", <<LogEntry(i)>>)

\* the decimal digits of n
RECURSIVE Digits(_)
Digits(n) == IF n < 10 THEN <<n>> ELSE Append(Digits(n \div 10), n % 10)

\* f"{n:03d}": the digits of n, zero-padded to three
Format03d(n) ==
    LET d == Digits(n) IN
    IF Len(d) >= 3 THEN d ELSE [i \in 1..(3 - Len(d)) |-> 0] \o d

\* f"{ticket_id}_TC{n:03d}"
TestId(ticket_id, n) == [ticket_id |-> ticket_id, tc |-> Format03d(n)]

\* numbering that restarts in every category
ToTestCasesPerCategory(r, st, category) ==
    LET tcs == Get(r, "test_cases", <<>>) IN
    [idx \in 1..Len(tcs) |->
        [test_id |-> TestId(st.ticket_info, (idx - 1) + 1),
         title |-> tcs[idx].title,
         priority |-> tcs[idx].priority,
         category |-> category]]

\* TestCase(...) for each tc of result.get("test_cases", []); idx counts
\* from 0 in the code and from 1 here
ToTestCases(r, st, category) ==
    LET tcs == Get(r, "test_cases", <<>>) IN
    [idx \in 1..Len(tcs) |->
        [test_id |-> TestId(st.ticket_info, Len(st.test_cases) + (idx - 1) + 1),
         title |-> tcs[idx].title,
         priority |-> tcs[idx].priority,
         category |-> category]]

\* what each agent does with `result` ("Update state"); test_generator extends
\* test_cases with the category's test cases
UpdateState(fr, i, r, c) ==
    CASE i = 1 ->
            Assign(Assign(Assign(fr,
                "extracted_requirements", Get(r, "requirements", <<>>)),
                "acceptance_criteria_gaps", Get(r, "ac_gaps", <<>>)),
                "clarification_questions", Get(r, "clarification_questions", <<>>))
      [] i = 2 ->
            Assign(Assign(Assign(fr,
                "impacted_modules", Get(r, "impacted_modules", <<>>)),
                "dependencies", Get(r, "dependencies", <<>>)),
                "risk_areas", Get(r, "risk_areas", <<>>))
      [] i = 3 ->
            Assign(fr, "qa_roadmap", Get(r, "qa_roadmap", <<>>))
      [] i = 4 ->
            Extend(fr, "test_cases",
                   ToTestCases(r, fr.local, fr.local.qa_roadmap[c].category))
      [] i = 5 ->
            LET fr1 == Assign(fr, "coverage_gaps", Get(r, "coverage_gaps", <<>>)) IN
            IF Get(r, "additional_questions", <<>>) # <<>>
            THEN Extend(fr1, "clarification_questions", Get(r, "additional_questions", <<>>))
            ELSE fr1

LastValueKeepsOld(old, new) == old

\* a field without a reducer: the node's value replaces the channel's
LastValue(old, new) == new

\* a field annotated with operator.add: the channel's list + the node's list
OperatorAdd(old, new) == old \o new

\* the graph applies the dict a node returned to the channels
ApplyWrites(ch, update) ==
    [f \in DOMAIN ch |->
        IF f \in AppendFields
        THEN OperatorAdd(ch[f], update[f])
        ELSE LastValue(ch[f], update[f])]

(* ========================= the stage agents ========================== *)

MainThread == 1
MaxElapsed == 2
MaxCalls == 2
MaxStageTime == 4
MaxRuns == 1

NoCancel == [completed |-> -1, running |-> FALSE]
NoAnswer == [key |-> [none |-> TRUE], text |-> NoText, at |-> 0]
NoFresh == [f \in AppendFields |-> <<>>]

\* max_retries=3, as every agent passes it
AgentMaxRetries == 3

\* an except branch that leaves cancel_requested as it finds it
AppExceptKeepsCancel ==
    /\ p_pc' = "ended"
    /\ processing' = FALSE
    /\ status_text' = IF cancel_requested THEN "Cancelled" ELSE "Failed"
    /\ returned' = NoState
    /\ UNCHANGED <<final_state, session_final_state, cancel_requested>>

\* app.process_ticket, lines 1560-1571: the except branch
AppExcept ==
    /\ p_pc' = "ended"
    /\ processing' = FALSE
    /\ cancel_requested' = FALSE
    /\ status_text' = IF cancel_requested THEN "Cancelled" ELSE "Failed"
    /\ returned' = NoState
    /\ UNCHANGED <<final_state, session_final_state>>

\* an exception leaves process(): raised through workflow.stream and
\* AgentOrchestrator.process_ticket into app.process_ticket, or to the direct
\* caller of the agent
Propagate ==
    /\ s_pc' = "none"
    /\ IF p_pc = "node"
       THEN AppExcept
       ELSE /\ p_pc' = "raised"
            /\ UNCHANGED <<final_state, processing, cancel_requested,
                           session_final_state, returned, status_text>>

SetFrame(fr) ==
    /\ local' = fr.local
    /\ chan' = fr.chan
    /\ shared' = fr.shared
    /\ fresh' = fr.fresh
    /\ latest' = fr.latest

\* the key of the logical call in work
CurrentKey == CacheKey(BuildPrompt(stage, local, cat_idx), LlmModel, GenerationConfig)

\* process(), first statement: state["current_agent"] = self.name;
\* test_generator with an empty qa_roadmap goes straight to its log
NodeStart ==
    /\ p_pc \in {"node", "direct"}
    /\ s_pc = "start"
    /\ SetFrame(Assign(Frame, "current_agent", AgentName(stage)))
    /\ cat_idx' = 1
    /\ s_pc' = IF stage = 4 /\ local.qa_roadmap = <<>> THEN "wrapup" ELSE "call"
    /\ requested' = <<>>
    /\ UNCHANGED <<stage, channel_aliasing>>
    /\ UNCHANGED <<limVars, retryVars, cacheVars, agentVars, helperVars, appVars>>
    /\ UNCHANGED <<acquires, before, merged_stage, cancel_at, answered, calls>>

\* "Update state" with result r, then on to the log (or, in test_generator,
\* to the next category)
Continue(r) ==
    /\ SetFrame(UpdateState(Frame, stage, r, cat_idx))
    /\ IF stage = 4 /\ cat_idx < Len(local.qa_roadmap)
       THEN cat_idx' = cat_idx + 1 /\ s_pc' = "call"
       ELSE cat_idx' = cat_idx /\ s_pc' = "wrapup"

\* `if cached_response:` is false for None and for the empty string
Truthy(text) == text # NoText /\ text # ""

\* "Check cache first": on a hit the cached text is parsed and used; on a miss
\* the agent waits for the rate limiter, if it has one, and calls Gemini
BeginCall ==
    /\ p_pc \in {"node", "direct"}
    /\ s_pc = "call"
    /\ acquires' = 0
    /\ LET cached == IF agent_api_cache
                     THEN CacheGet(cache_files, CurrentKey, clock)
                     ELSE NoText
           parsed == JsonLoads(stage, cached)
       IN
       /\ cache_files' = IF agent_api_cache
                         THEN CacheAfterGet(cache_files, CurrentKey, clock)
                         ELSE cache_files
       /\ IF Truthy(cached) /\ parsed.ok
          THEN /\ Continue(parsed)
               /\ UNCHANGED <<retryVars, appVars>>
          ELSE IF Truthy(cached) /\ stage # 4
          THEN \* json.loads(cached_response) raises
               /\ Propagate
               /\ UNCHANGED <<retryVars, local, chan, shared, fresh, latest,
                              cat_idx>>
          ELSE /\ UNCHANGED <<appVars, local, chan, shared, fresh, latest,
                              cat_idx>>
               /\ IF agent_rate_limiter
                  THEN s_pc' = "acquire" /\ UNCHANGED retryVars
                  ELSE s_pc' = "remote" /\ CallStart(AgentMaxRetries)
    /\ requested' = IF stage = 4
                     THEN Append(requested, local.qa_roadmap[cat_idx].category)
                     ELSE requested
    /\ UNCHANGED <<stage, channel_aliasing, ttl, cache_op, cache_calls, cache_stored>>
    /\ UNCHANGED <<limVars, agentVars, helperVars>>
    /\ UNCHANGED <<before, merged_stage, cancel_at, answered, calls>>

\* self.rate_limiter.wait_if_needed()
StageAcquire ==
    /\ s_pc = "acquire"
    /\ WaitIfNeededEnter(MainThread)
    /\ acquires' = acquires + 1
    /\ s_pc' = "acquiring"
    /\ UNCHANGED <<retryVars, cacheVars, agentVars, helperVars, appVars>>
    /\ UNCHANGED <<channel_aliasing, chan, local, shared, stage, cat_idx>>
    /\ UNCHANGED <<before, fresh, latest, merged_stage, cancel_at, answered, calls, requested>>

StageWake ==
    /\ s_pc = "acquiring"
    /\ WaitIfNeededWake(MainThread)
    /\ UNCHANGED <<retryVars, cacheVars, agentVars, helperVars, graphVars, appVars, histVars>>

\* wait_if_needed returns and call_gemini_with_retry(..., max_retries=3) starts
StageAcquired ==
    /\ s_pc = "acquiring"
    /\ WaitIfNeededRecord(MainThread)
    /\ CallStart(AgentMaxRetries)
    /\ s_pc' = "remote"
    /\ UNCHANGED <<cacheVars, agentVars, helperVars, appVars, histVars>>
    /\ UNCHANGED <<channel_aliasing, chan, local, shared, stage, cat_idx>>

\* wait_if_needed raised
StageAcquireRaised ==
    /\ s_pc = "acquiring"
    /\ WaitIfNeededRaised(MainThread)
    /\ Propagate
    /\ UNCHANGED <<retryVars, cacheVars, agentVars, helperVars, histVars>>
    /\ UNCHANGED <<channel_aliasing, chan, local, shared, stage, cat_idx>>

\* one generate_content attempt of the call in work
StageAttempt(o) ==
    /\ s_pc = "remote"
    /\ Attempt(o)
    /\ UNCHANGED <<limVars, cacheVars, agentVars, helperVars, graphVars, appVars>>
    /\ UNCHANGED <<acquires, before, fresh, latest, merged_stage, cancel_at, answered, calls, requested>>

StageSleepDone ==
    /\ s_pc = "remote"
    /\ SleepDone
    /\ UNCHANGED <<limVars, cacheVars, agentVars, helperVars, graphVars, appVars, histVars>>

\* a fallback that invents a test case
EmptyTestCasesKeepsOne == [ok |-> TRUE, present |-> {"test_cases"}, val |-> FullResult(4)]

\* test_generator's fallback for a response that json.loads rejects
EmptyTestCases == [ok |-> TRUE, present |-> {"test_cases"}, val |-> [test_cases |-> <<>>]]

\* call_gemini_with_retry is over: its exception leaves process(); its text is
\* cached, if the agent has a cache, and then parsed
EndCall(write) ==
    /\ s_pc = "remote"
    /\ CallEnd
    /\ IF r_pc = "raised"
       THEN /\ Propagate
            /\ UNCHANGED <<cache_files, local, chan, shared, fresh, latest,
                           cat_idx, answered>>
       ELSE /\ cache_files' = IF agent_api_cache
                              THEN CacheAfterSet(cache_files, CurrentKey, clock,
                                                 response_text, write)
                              ELSE cache_files
            /\ answered' = IF write = "ok"
                           THEN [key |-> CurrentKey, text |-> response_text, at |-> clock]
                           ELSE NoAnswer
            /\ IF JsonLoads(stage, response_text).ok
               THEN Continue(JsonLoads(stage, response_text)) /\ UNCHANGED appVars
               ELSE IF stage = 4
               THEN Continue(EmptyTestCases) /\ UNCHANGED appVars
               ELSE /\ Propagate
                    /\ UNCHANGED <<local, chan, shared, fresh, latest, cat_idx>>
    /\ UNCHANGED <<stage, channel_aliasing, ttl, cache_op, cache_calls, cache_stored>>
    /\ UNCHANGED <<limVars, agentVars, helperVars>>
    /\ UNCHANGED <<acquires, before, merged_stage, cancel_at, calls, requested>>

(* ================== AgentOrchestrator and the app ==================== *)

\* "Generate Test Cases": app.process_ticket sets the flags and calls
\* orchestrator.process_ticket, which creates the initial state and starts
\* streaming the workflow at its entry point
StartRun(ticket) ==
    /\ p_pc = "idle"
    /\ ~processing
    /\ processing' = TRUE
    /\ cancel_requested' = FALSE
    /\ status_text' = ""
    /\ returned' = NoState
    /\ final_state' = NoState
    /\ p_pc' = "node"
    /\ chan' = create_initial_state(ticket)
    /\ local' = create_initial_state(ticket)
    /\ shared' = IF channel_aliasing THEN AppendFields ELSE {}
    /\ before' = create_initial_state(ticket)
    /\ fresh' = NoFresh
    /\ latest' = [f \in ReplaceFields |-> create_initial_state(ticket)[f]]
    /\ stage' = 1
    /\ s_pc' = "start"
    /\ cat_idx' = 1
    /\ UNCHANGED <<session_final_state, channel_aliasing>>
    /\ UNCHANGED <<limVars, retryVars, cacheVars, agentVars, helperVars>>
    /\ UNCHANGED <<acquires, merged_stage, cancel_at, answered, calls, requested>>

\* "Generate Test Cases" again, after a run has ended: the same handler, in a
\* later script run of the app
Rerun(ticket) ==
    /\ p_pc = "ended"
    /\ ~processing
    /\ calls < MaxRuns
    /\ calls' = calls + 1
    /\ UNCHANGED requested
    /\ processing' = TRUE
    /\ cancel_requested' = FALSE
    /\ status_text' = ""
    /\ returned' = NoState
    /\ final_state' = NoState
    /\ p_pc' = "node"
    /\ chan' = create_initial_state(ticket)
    /\ local' = create_initial_state(ticket)
    /\ shared' = IF channel_aliasing THEN AppendFields ELSE {}
    /\ before' = create_initial_state(ticket)
    /\ fresh' = NoFresh
    /\ latest' = [f \in ReplaceFields |-> create_initial_state(ticket)[f]]
    /\ stage' = 1
    /\ s_pc' = "start"
    /\ cat_idx' = 1
    /\ merged_stage' = 0
    /\ cancel_at' = NoCancel
    /\ UNCHANGED <<session_final_state, channel_aliasing>>
    /\ UNCHANGED <<limVars, retryVars, cacheVars, agentVars, helperVars>>
    /\ UNCHANGED <<acquires, answered>>

\* the node logs its action and returns its state dict; the graph applies the
\* returned dict to the channels and the stream yields {node name: dict}
NodeReturn ==
    /\ p_pc = "node"
    /\ s_pc = "wrapup"
    /\ LET fr == Log(Frame, stage) IN
       /\ local' = fr.local
       /\ shared' = fr.shared
       /\ fresh' = fr.fresh
       /\ latest' = fr.latest
       /\ chan' = ApplyWrites(fr.chan, fr.local)
    /\ merged_stage' = stage
    /\ s_pc' = "none"
    /\ p_pc' = "yielded"
    /\ UNCHANGED <<stage, cat_idx, channel_aliasing>>
    /\ UNCHANGED <<final_state, processing, cancel_requested,
                   session_final_state, returned, status_text>>
    /\ UNCHANGED <<limVars, retryVars, cacheVars, agentVars, helperVars>>
    /\ UNCHANGED <<acquires, before, cancel_at, answered, calls, requested>>

\* the loop body of process_ticket: progress_callback(agent_name, agent_state)
\* raises when cancellation was requested; else final_state = agent_state and
\* the stream goes on to the next node, which gets the channel values
ProgressCallback ==
    /\ p_pc = "yielded"
    /\ IF cancel_requested
       THEN /\ AppExcept
            /\ UNCHANGED <<graphVars, before, fresh>>
       ELSE /\ final_state' = local
            /\ UNCHANGED <<processing, cancel_requested, session_final_state,
                           returned, status_text>>
            /\ IF stage < NumStages
               THEN /\ p_pc' = "node"
                    /\ stage' = stage + 1
                    /\ s_pc' = "start"
                    /\ local' = chan
                    /\ shared' = IF channel_aliasing THEN AppendFields ELSE {}
                    /\ before' = chan
                    /\ fresh' = NoFresh
                    /\ UNCHANGED <<chan, cat_idx, channel_aliasing>>
               ELSE /\ p_pc' = "stream_end"
                    /\ UNCHANGED <<graphVars, before, fresh>>
    /\ UNCHANGED <<limVars, retryVars, cacheVars, agentVars, helperVars>>
    /\ UNCHANGED <<acquires, latest, merged_stage, cancel_at, answered, calls, requested>>

StampKeeps(st, elapsed) == st

\* lines 97-99: if final_state: final_state["processing_time"] = elapsed
Stamp(st, elapsed) ==
    IF st = NoState THEN st ELSE [st EXCEPT !.processing_time = elapsed]

\* the stream is exhausted: final_state["processing_time"] = elapsed, return
\* final_state; the app stores it in the session, clears `processing` and
\* returns st.session_state.final_state
Finish(elapsed) ==
    /\ p_pc = "stream_end"
    /\ final_state' = Stamp(final_state, elapsed)
    /\ session_final_state' = final_state'
    /\ returned' = final_state'
    /\ processing' = FALSE
    /\ status_text' = "Complete"
    /\ p_pc' = "ended"
    /\ UNCHANGED cancel_requested
    /\ UNCHANGED <<limVars, retryVars, cacheVars, agentVars, helperVars, graphVars, histVars>>

\* "Cancel Generation": the button handler, lines 1471-1475
RequestCancel ==
    /\ p_pc \in {"node", "yielded", "stream_end"}
    /\ processing
    /\ cancel_requested' = TRUE
    /\ processing' = FALSE
    /\ cancel_at' = [completed |-> merged_stage,
                     running |-> (p_pc = "node" /\ s_pc # "start")]
    /\ UNCHANGED <<p_pc, final_state, session_final_state, returned, status_text>>
    /\ UNCHANGED <<limVars, retryVars, cacheVars, agentVars, helperVars, graphVars>>
    /\ UNCHANGED <<acquires, before, fresh, latest, merged_stage, answered, calls, requested>>

(* ================= an agent called outside the graph ================= *)

\* the states handed to a directly called agent
StageInputs ==
    {create_initial_state(t) : t \in Tickets} \cup
    {[create_initial_state(t) EXCEPT !.qa_roadmap = FullResult(3).qa_roadmap] : t \in Tickets}

\* agent.process(st) for the agent of stage i
DirectCall(i, st) ==
    /\ p_pc \in {"idle", "returned", "raised"}
    /\ p_pc' = "direct"
    /\ stage' = i
    /\ local' = st
    /\ shared' = {}
    /\ before' = st
    /\ fresh' = NoFresh
    /\ latest' = [f \in ReplaceFields |-> st[f]]
    /\ s_pc' = "start"
    /\ cat_idx' = 1
    /\ UNCHANGED <<chan, channel_aliasing>>
    /\ UNCHANGED <<final_state, processing, cancel_requested,
                   session_final_state, returned, status_text>>
    /\ UNCHANGED <<limVars, retryVars, cacheVars, agentVars, helperVars>>
    /\ calls < MaxCalls
    /\ stage \in {0, i}
    /\ calls' = calls + 1
    /\ UNCHANGED requested
    /\ UNCHANGED <<acquires, merged_stage, cancel_at, answered>>

\* the agent logs its action and returns the state to its caller
DirectReturn ==
    /\ p_pc = "direct"
    /\ s_pc = "wrapup"
    /\ SetFrame(Log(Frame, stage))
    /\ s_pc' = "none"
    /\ p_pc' = "returned"
    /\ UNCHANGED <<stage, cat_idx, channel_aliasing>>
    /\ UNCHANGED <<final_state, processing, cancel_requested,
                   session_final_state, returned, status_text>>
    /\ UNCHANGED <<limVars, retryVars, cacheVars, agentVars, helperVars>>
    /\ UNCHANGED <<acquires, before, merged_stage, cancel_at, answered, calls, requested>>

\* the outcomes of generate_content tried in the stage specifications
StageOutcomes ==
    { Ok("{full}"), Ok("{}"), Ok("garbage"),
      Failed(Msg(<<"429", "Resource", "exhausted">>, NoHint, NoHint)),
      Failed(Msg(<<"500", "Internal", "error">>, NoHint, NoHint)) }

InitStages ==
    /\ cache_files = {}
    /\ cache_op = NoOp
    /\ cache_calls = [t \in Threads |-> NoCall]
    /\ cache_stored = [k \in RaceKeys |-> NoStored]
    /\ ttl \in {n * TicksPerSecond : n \in 1..MaxTtl}
    /\ chan = NoState
    /\ local = NoState
    /\ shared = {}
    /\ stage = 0
    /\ s_pc = "none"
    /\ cat_idx = 1
    /\ p_pc = "idle"
    /\ final_state = NoState
    /\ processing = FALSE
    /\ cancel_requested = FALSE
    /\ session_final_state = NoState
    /\ returned = NoState
    /\ status_text = ""
    /\ acquires = 0
    /\ before = NoState
    /\ fresh = NoFresh
    /\ latest = [f \in ReplaceFields |-> create_initial_state("")[f]]
    /\ merged_stage = 0
    /\ cancel_at = NoCancel
    /\ answered = NoAnswer
    /\ calls = 0
    /\ requested = <<>>
    /\ ui_error = {}
    /\ ui_message = NoText
    /\ global_limiter = NoLimiter
    /\ g_calls = [t \in Threads |-> NoGetCall]
    /\ g_created = <<>>

\* AgentOrchestrator.__init__: the agents get llm_client only, so their
\* rate_limiter and api_cache stay None
OrchestratorWiringWithCache ==
    /\ agent_rate_limiter = FALSE
    /\ agent_api_cache = TRUE

OrchestratorWiring ==
    /\ agent_rate_limiter = FALSE
    /\ agent_api_cache = FALSE

(* ========================== specifications ========================== *)

\* no RateLimiter and no APICache object exists: their fields hold one value
NoLimiterNoCache ==
    /\ max_requests = MaxRequests
    /\ time_window = MaxWindow
    /\ ttl = MaxTtl * TicksPerSecond

\* the pipeline as the app builds it
InitPipeline ==
    /\ InitLimiter
    /\ InitRetry
    /\ InitStages
    /\ NoLimiterNoCache
    /\ OrchestratorWiring
    /\ channel_aliasing \in BOOLEAN

\* a RateLimiter alone
InitLimiterOnly ==
    /\ InitLimiter
    /\ InitRetry
    /\ InitStages
    /\ ttl = MaxTtl * TicksPerSecond
    /\ OrchestratorWiring
    /\ channel_aliasing = FALSE

\* call_gemini_with_retry alone
InitRetryOnly ==
    /\ InitLimiter
    /\ InitRetry
    /\ InitStages
    /\ NoLimiterNoCache
    /\ OrchestratorWiring
    /\ channel_aliasing = FALSE

stageVars == <<cacheVars, agentVars, helperVars, graphVars, appVars, histVars>>

NextLimiter == LimiterStep /\ UNCHANGED <<retryVars, stageVars>>

SpecLimiter == InitLimiterOnly /\ [][NextLimiter]_vars

NextRetry == RetryStep /\ UNCHANGED <<limVars, stageVars>>

SpecRetry == InitRetryOnly /\ [][NextRetry]_vars

\* one run of app.process_ticket on the pipeline AgentOrchestrator builds
NextPipeline ==
    \/ \E t \in Tickets : StartRun(t)
    \/ NodeStart
    \/ BeginCall
    \/ \E o \in StageOutcomes : StageAttempt(o)
    \/ StageSleepDone
    \/ EndCall("ok")
    \/ NodeReturn
    \/ ProgressCallback
    \/ \E e \in 1..MaxElapsed : Finish(e)
    \/ RequestCancel

SpecPipeline == InitPipeline /\ [][NextPipeline]_vars

\* the pipeline run again and again from the app
RerunOutcomes ==
    { Ok("{full}"),
      Failed(Msg(<<"429", "Resource", "exhausted">>, NoHint, NoHint)) }

NextRerun ==
    \/ \E t \in Tickets : StartRun(t)
    \/ \E t \in Tickets : Rerun(t)
    \/ NodeStart
    \/ BeginCall
    \/ \E o \in RerunOutcomes : StageAttempt(o)
    \/ StageSleepDone
    \/ EndCall("ok")
    \/ NodeReturn
    \/ ProgressCallback
    \/ \E e \in 1..MaxElapsed : Finish(e)

SpecRerun == InitPipeline /\ [][NextRerun]_vars

\* the pipeline run on answers of every shape, the test cases of a category
\* numbering none, one or MaxCases
GeneratorOutcomes ==
    { Ok("{full}"), Ok("{many}"), Ok("{}"), Ok("garbage"),
      Failed(Msg(<<"429", "Resource", "exhausted">>, NoHint, NoHint)),
      Failed(Msg(<<"500", "Internal", "error">>, NoHint, NoHint)) }

NextGenerator ==
    \/ \E t \in Tickets : StartRun(t)
    \/ NodeStart
    \/ BeginCall
    \/ \E o \in GeneratorOutcomes : StageAttempt(o)
    \/ StageSleepDone
    \/ EndCall("ok")
    \/ NodeReturn
    \/ ProgressCallback
    \/ \E e \in 1..MaxElapsed : Finish(e)

SpecGenerator == InitPipeline /\ [][NextGenerator]_vars

\* a session of the app: runs one after the other, each of which may complete,
\* fail or be cancelled
SessionOutcomes ==
    { Ok("{full}"),
      Failed(Msg(<<"429", "Resource", "exhausted">>, NoHint, NoHint)),
      Failed(Msg(<<"500", "Internal", "error">>, NoHint, NoHint)) }

NextSession ==
    \/ \E t \in Tickets : StartRun(t)
    \/ \E t \in Tickets : Rerun(t)
    \/ NodeStart
    \/ BeginCall
    \/ \E o \in SessionOutcomes : StageAttempt(o)
    \/ StageSleepDone
    \/ EndCall("ok")
    \/ NodeReturn
    \/ ProgressCallback
    \/ \E e \in 1..MaxElapsed : Finish(e)
    \/ RequestCancel

SpecSession == InitPipeline /\ [][NextSession]_vars

MaxCapTime == 4

\* what a direct call of a RateLimiter method leaves alone
limiterFrame == <<retryVars, stageVars>>

CapacityTick == clock < MaxCapTime /\ Tick /\ UNCHANGED limiterFrame

\* wait_if_needed and get_remaining_capacity called by concurrent threads
NextCapacity ==
    \/ CapacityTick
    \/ \E t \in Threads : WaitIfNeededEnter(t) /\ UNCHANGED limiterFrame
    \/ \E t \in Threads : WaitIfNeededWake(t) /\ UNCHANGED limiterFrame
    \/ \E t \in Threads : WaitIfNeededRecord(t) /\ UNCHANGED limiterFrame
    \/ \E t \in Threads : WaitIfNeededRaised(t) /\ UNCHANGED limiterFrame
    \/ \E t \in Threads : GetRemainingCapacityCall(t) /\ UNCHANGED limiterFrame
    \/ \E t \in Threads : GetRemainingCapacityReturn(t) /\ UNCHANGED limiterFrame

SpecCapacity == InitLimiterOnly /\ [][NextCapacity]_vars

MaxResetTime == 3
MaxReserved == 3

ResetTick == clock < MaxResetTime /\ Tick /\ UNCHANGED limiterFrame

\* wait_if_needed, get_remaining_capacity and reset called by concurrent threads
NextReset ==
    \/ ResetTick
    \/ \E t \in Threads :
          Len(reserved) < MaxReserved /\ WaitIfNeededEnter(t) /\ UNCHANGED limiterFrame
    \/ \E t \in Threads : WaitIfNeededWake(t) /\ UNCHANGED limiterFrame
    \/ \E t \in Threads : WaitIfNeededRecord(t) /\ UNCHANGED limiterFrame
    \/ \E t \in Threads : WaitIfNeededRaised(t) /\ UNCHANGED limiterFrame
    \/ \E t \in Threads : GetRemainingCapacityCall(t) /\ UNCHANGED limiterFrame
    \/ \E t \in Threads : GetRemainingCapacityReturn(t) /\ UNCHANGED limiterFrame
    \/ \E t \in Threads : ResetCall(t) /\ UNCHANGED limiterFrame
    \/ \E t \in Threads : ResetReturn(t) /\ UNCHANGED limiterFrame

SpecReset == InitLimiterOnly /\ [][NextReset]_vars

\* an APICache alone
InitCacheOnly ==
    /\ InitLimiter
    /\ InitRetry
    /\ InitStages
    /\ max_requests = MaxRequests
    /\ time_window = MaxWindow
    /\ OrchestratorWiring
    /\ channel_aliasing = FALSE

CacheTick == clock < MaxCacheTime /\ Tick /\ UNCHANGED <<retryVars, stageVars>>

NextCache ==
    \/ CacheTick
    \/ \E r \in LookupRequests : CacheGetCall(r)
    \/ \E r \in StoreRequests, text \in {"{full}", "garbage"}, w \in WriteResults :
           CacheSetCall(r, text, w)
    \/ CacheClearCall
    \/ CacheGetStatsCall

SpecCache == InitCacheOnly /\ [][NextCache]_vars

\* several threads inside get and set of one APICache
NextRace ==
    \/ CacheTick
    \/ \E t \in Threads, r \in RaceRequests : RaceGetExists(t, r)
    \/ \E t \in Threads : RaceGetRead(t)
    \/ \E t \in Threads : RaceGetUnlinkExpired(t)
    \/ \E t \in Threads : RaceGetExceptExists(t)
    \/ \E t \in Threads : RaceGetExceptUnlink(t)
    \/ \E t \in Threads, r \in RaceRequests, x \in RaceTexts : RaceSetOpen(t, r, x)
    \/ \E t \in Threads : RaceSetDump(t)
    \/ \E t \in Threads : RaceSetOpenFails(t)
    \/ \E t \in Threads : RaceSetDumpFails(t)

SpecRace == InitCacheOnly /\ [][NextRace]_vars

\* get_user_friendly_error applied to one exception text after another
NextFriendly == \E text \in ErrorTexts : ShowError(text)

SpecFriendly == InitRetryOnly /\ [][NextFriendly]_vars

\* get_rate_limiter called by concurrent threads
NextSingleton ==
    \/ \E t \in Threads, n \in 1..MaxRequests, w \in 1..MaxWindow :
          GetRateLimiterTest(t, n, w)
    \/ \E t \in Threads : GetRateLimiterCreate(t)
    \/ \E t \in Threads : GetRateLimiterReturn(t)

SpecSingleton == InitRetryOnly /\ [][NextSingleton]_vars

\* an agent built with a limiter and a cache or, as AgentOrchestrator builds
\* it, without: a missing object's fields hold one value
InitStageOnly ==
    /\ InitLimiter
    /\ InitRetry
    /\ InitStages
    /\ agent_rate_limiter \in BOOLEAN
    /\ agent_api_cache \in BOOLEAN
    /\ ~agent_rate_limiter => (max_requests = MaxRequests /\ time_window = MaxWindow)
    /\ ~agent_api_cache => ttl = MaxTtl * TicksPerSecond
    /\ channel_aliasing = FALSE

\* time passes between and during the calls
StageTick == clock < MaxStageTime /\ Tick /\ UNCHANGED <<retryVars, stageVars>>

\* one agent called again and again by one caller
NextStage ==
    \/ StageTick
    \/ \E i \in Stages, st \in StageInputs : DirectCall(i, st)
    \/ NodeStart
    \/ BeginCall
    \/ StageAcquire
    \/ StageWake
    \/ StageAcquired
    \/ StageAcquireRaised
    \/ \E o \in (StageOutcomes \ {Ok("{}")}) \cup {Ok("")} : StageAttempt(o)
    \/ StageSleepDone
    \/ \E w \in WriteResults : EndCall(w)
    \/ DirectReturn

SpecStage == InitStageOnly /\ [][NextStage]_vars

(* ------------------------------ C4, C5 -------------------------------- *)

AllTransientFailures ==
    \A i \in 1..Len(outcomes) : ~outcomes[i].ok /\ IsTransient(outcomes[i].error)

\* C4: a call whose every attempt fails transiently never makes more than
\* max_retries attempts, and it ends after exactly max_retries attempts by
\* raising the failure of the last attempt, unchanged.
C4_RetryBounded ==
    (max_retries >= 1 /\ AllTransientFailures) =>
        /\ Len(outcomes) <= max_retries
        /\ r_pc \in {"try", "sleep", "raised", "idle"}
        /\ r_pc \in {"try", "sleep"} => Len(outcomes) < max_retries
        /\ (r_pc = "raised" =>
              /\ Len(outcomes) = max_retries
              /\ raised_error = outcomes[Len(outcomes)].error)

\* the default three attempts all failed transiently and the call has raised
C4_Witness ==
    /\ max_retries = 3
    /\ Len(outcomes) = 3
    /\ AllTransientFailures
    /\ r_pc = "raised"

\* the claim's own reading of "fatal": none of the markers in the message
C5_CarriesNoMarker(e) ==
    /\ ~Contains(e.words, "429")
    /\ ~ContainsLower(e.words, "quota")
    /\ ~ContainsLower(e.words, "rate")

\* C5: a failure whose message carries none of the markers '429', 'quota',
\* 'rate' is raised to the caller at once: it is the last attempt of the call,
\* no wait follows it, and the caller gets that very failure.
C5_FatalImmediate ==
    \A i \in 1..Len(outcomes) :
        (~outcomes[i].ok /\ C5_CarriesNoMarker(outcomes[i].error)) =>
            /\ i = Len(outcomes)
            /\ r_pc \in {"raised", "idle"}
            /\ raised_error = outcomes[i].error
            /\ Len(slept) = i - 1

\* a fatal failure on a retry, after a transient one was waited out
C5_Witness ==
    /\ Len(outcomes) = 2
    /\ ~outcomes[2].ok
    /\ C5_CarriesNoMarker(outcomes[2].error)
    /\ r_pc = "raised"

(* ------------------------------ C1, C2 -------------------------------- *)

\* C1: with max_requests N >= 1 and time_window W, no interval of length W
\* holds more than N recorded reservations: any reservation and the N-th one
\* after it are at least W apart, whatever the interleaving of callers.
C1_WindowBound ==
    max_requests >= 1 =>
        \A i \in 1..Len(reserved) :
            i + max_requests <= Len(reserved) =>
                reserved[i + max_requests] - reserved[i] >= WindowTicks

\* a reservation was admitted only after waiting for a full window to drain
C1_Witness ==
    /\ max_requests >= 1
    /\ Len(reserved) > max_requests
    /\ \E t \in Threads : last_wait[t] > 0

\* C2: any two consecutive reservations are at least
\* time_window / max_requests apart.
C2_MinSpacing ==
    max_requests >= 1 =>
        \A i \in 1..Len(reserved) :
            i + 1 <= Len(reserved) =>
                max_requests * (reserved[i + 1] - reserved[i]) >= WindowTicks

\* two consecutive reservations exist, the later one made after a spacing wait
C2_Witness ==
    /\ max_requests >= 2
    /\ Len(reserved) >= 2
    /\ Len(requests) < max_requests
    /\ \E t \in Threads : last_wait[t] > 0

(* -------------------------------- C3 ---------------------------------- *)

\* C3: when the request in work was answered and stored less than a TTL ago,
\* the agent takes the answer from the cache: it neither waits for the rate
\* limiter nor calls generate_content for it.
C3_CacheIdempotent ==
    (p_pc = "direct" /\ s_pc \in {"acquire", "acquiring", "remote"}) =>
        ~(answered.key = CurrentKey /\ clock - answered.at <= ttl)

(* -------------------------------- C6 ---------------------------------- *)

\* C6: with a rate limiter, every generate_content attempt of a logical call
\* has its own wait_if_needed before it: attempts never outnumber the waits,
\* and when the call is over the two counts are equal.
C6_AcquirePerAttempt ==
    (agent_rate_limiter /\ p_pc = "direct" /\ s_pc = "remote") =>
        /\ Len(outcomes) <= acquires
        /\ r_pc \in {"returned", "raised"} => acquires = Len(outcomes)

(* ------------------------------ C7, C8 -------------------------------- *)

\* C7: after a stage's update is merged, every append field holds what it
\* held before the stage followed by the stage's new elements, nothing
\* dropped, reordered or duplicated.
C7_AppendConcat ==
    p_pc = "yielded" =>
        \A f \in AppendFields : chan[f] = before[f] \o fresh[f]

\* C8: a completed run of the five stages, each logging one action, returns
\* a state whose agent_logs has five entries, one per stage, in stage order.
C8_FiveLogs ==
    status_text = "Complete" =>
        /\ Len(returned.agent_logs) = NumStages
        /\ \A i \in Stages : returned.agent_logs[i].agent = AgentName(i)

(* -------------------------------- C9 ---------------------------------- *)

C9_Fields == {"extracted_requirements", "impacted_modules", "dependencies",
              "qa_roadmap", "current_agent"}

\* C9: after a stage's update is merged, every replace field holds exactly
\* the value last assigned to it, and current_agent names the stage that has
\* just completed.
C9_ReplaceLatest ==
    p_pc = "yielded" =>
        /\ \A f \in C9_Fields : chan[f] = latest[f]
        /\ chan.current_agent = AgentName(stage)

\* stage 3 has been merged: qa_roadmap holds its roadmap and current_agent
\* has been replaced for the third time
C9_Witness ==
    /\ p_pc = "yielded"
    /\ stage = 3
    /\ chan.qa_roadmap = FullResult(3).qa_roadmap
    /\ chan.extracted_requirements = FullResult(1).requirements
    /\ chan.current_agent = AgentName(3)

(* -------------------------------- C10 --------------------------------- *)

\* C10: when cancellation is requested after stage 2 has completed and before
\* stage 3 starts, no generate_content call of stage 3 or later is made, and
\* the run ends as Cancelled and returns the state with the contributions of
\* stages 1 and 2.
C10_CancelBeforeStage3 ==
    cancel_at = [completed |-> 2, running |-> FALSE] =>
        /\ ~(stage >= 3 /\ s_pc = "remote")
        /\ p_pc = "ended" =>
              /\ status_text = "Cancelled"
              /\ returned # NoState
              /\ returned.current_agent = AgentName(2)

(* ------------------------------ C11, C12 ------------------------------ *)

\* C11: a run that ends in a stage error or in cancellation hands its caller
\* the state accumulated by the stages completed before the stop.
C11_PartialStateKept ==
    (p_pc = "ended" /\ status_text \in {"Failed", "Cancelled"}) =>
        /\ returned # NoState
        /\ merged_stage >= 1 => returned.current_agent = AgentName(merged_stage)

\* generate_content has returned a text that json.loads rejects
C12_Unparsable ==
    /\ p_pc = "node"
    /\ s_pc = "remote"
    /\ r_pc = "returned"
    /\ ~JsonLoads(stage, response_text).ok

\* C12: in each of the five stages a response that cannot be parsed does not
\* abort the run: no error leaves the stage, which goes on with empty values
\* and lets the pipeline proceed.
C12_ParseFailureAbsorbed ==
    [][C12_Unparsable =>
          /\ status_text' # "Failed"
          /\ s_pc' # s_pc => (p_pc' = "node" /\ s_pc' \in {"call", "wrapup"})]_vars

(* ---------------------------- C13 .. C16 ------------------------------ *)

\* the step is a direct cache.get / cache.set of the cache specification
C13_GetStep == cache_op'.op = "get" /\ clock' = clock
C15_SetStep == cache_op'.op = "set" /\ clock' = clock

\* C13: get returns the stored response iff an intact entry of the key exists
\* whose age is at most the TTL; a get that meets an expired entry returns
\* nothing and deletes it; and an intact entry leaves the store only by a get
\* of its key that finds it expired, by a set of its key, or by clear.
C13_LookupByAge ==
    [][/\ C13_GetStep =>
            LET k == cache_op'.key
                hit == {e \in cache_files : /\ e.key = k
                                            /\ e.readable
                                            /\ clock - e.timestamp <= ttl}
                old == {e \in cache_files : /\ e.key = k
                                            /\ e.readable
                                            /\ clock - e.timestamp > ttl}
            IN /\ (cache_op'.result # NoText) <=> (hit # {})
               /\ \A e \in hit : cache_op'.result = e.response /\ e \in cache_files'
               /\ old # {} => (\A e \in cache_files' : e.key # k)
       /\ \A e \in cache_files :
            (e.readable /\ e \notin cache_files') =>
                \/ cache_op'.op = "clear"
                \/ C15_SetStep /\ cache_op'.key = e.key
                \/ C13_GetStep /\ cache_op'.key = e.key /\ clock - e.timestamp > ttl
      ]_vars

\* a get has met an expired entry, found nothing and removed the entry
C13_Witness ==
    /\ cache_op.op = "get"
    /\ cache_op.met = "expired"
    /\ cache_op.result = NoText
    /\ ~HasFile(cache_files, cache_op.key)

\* C14: a get that meets a corrupt entry returns nothing and removes the
\* entry, so that the next get of the key finds no entry at all.
C14_CorruptRemoved ==
    [][(C13_GetStep /\ \E e \in cache_files : e.key = cache_op'.key /\ ~e.readable) =>
            /\ cache_op'.result = NoText
            /\ \A e \in cache_files' : e.key # cache_op'.key
            /\ Met(cache_files', cache_op'.key, clock') = "absent"
      ]_vars

\* a get has met a corrupt entry
C14_Witness ==
    /\ cache_op.op = "get"
    /\ cache_op.met = "corrupt"
    /\ cache_op.result = NoText

\* C15: a set that writes replaces the entry of its key by one holding the
\* new response and the current time, which a get then returns; a set that
\* fails to write returns all the same, touches no other key, and at worst
\* leaves its own key without a usable entry.
C15_SetOverwrites ==
    [][C15_SetStep =>
            LET k == cache_op'.key
                mine == {e \in cache_files' : e.key = k}
            IN /\ \A e \in cache_files : e.key # k => e \in cache_files'
               /\ \A e \in cache_files' : e.key # k => e \in cache_files
               /\ cache_op'.write = "ok" =>
                     /\ mine = {[key |-> k, timestamp |-> clock,
                                 response |-> cache_op'.text, readable |-> TRUE]}
                     /\ CacheGet(cache_files', k, clock') = cache_op'.text
               /\ cache_op'.write = "open_failed" =>
                     mine = {e \in cache_files : e.key = k}
               /\ cache_op'.write = "dump_failed" =>
                     CacheGet(cache_files', k, clock') = NoText
      ]_vars

\* a set has replaced a live entry holding another response
C15_Witness ==
    /\ cache_op.op = "set"
    /\ cache_op.write = "ok"
    /\ cache_op.met = "fresh"
    /\ cache_op.text = "garbage"
    /\ FileOf(cache_files, cache_op.key).response = "garbage"
    /\ FileOf(cache_files, cache_op.key).timestamp > 0

\* the same prompt, the same model and the same config items, in any order
C16_SameContents(r, q) ==
    /\ r.prompt = q.prompt
    /\ r.model = q.model
    /\ {r.config[i] : i \in 1..Len(r.config)} = {q.config[i] : i \in 1..Len(q.config)}

\* C16: the key a call used is the key of exactly the requests with the same
\* prompt, model and config contents, whatever the order of the config items.
C16_KeyByContents ==
    cache_op.op \in {"get", "set"} =>
        \A q \in LookupRequests :
            C16_SameContents(cache_op.request, q) <=> (KeyOf(q) = cache_op.key)

\* a get with the config items in the other order hit the entry stored under
\* the agents' order
C16_Witness ==
    /\ cache_op.op = "get"
    /\ cache_op.request.config = <<GenerationConfig[2], GenerationConfig[1]>>
    /\ cache_op.result # NoText

(* ---------------------------- C17 .. C20 ------------------------------ *)

\* thread t returns from get_remaining_capacity in this step
C17_Returns(t) == pc[t] = "capacity" /\ pc'[t] = "idle"

\* C17 as stated: get_remaining_capacity leaves the recorded window as it was.
C17_WindowUntouched ==
    [][\A t \in Threads : C17_Returns(t) => requests' = requests]_vars

\* C17, amended: get_remaining_capacity changes the limiter only by dropping,
\* from the front of the window, reservations whose age has reached
\* time_window; the reservations younger than that stay, in their order, and
\* nothing else of the limiter changes.
C17_OnlyExpiredDropped ==
    [][\A t \in Threads : C17_Returns(t) =>
          /\ \E d \in 0..Len(requests) :
                /\ requests' = SubSeq(requests, d + 1, Len(requests))
                /\ \A i \in 1..d : clock - requests[i] >= WindowTicks
          /\ \A i \in 1..Len(requests) :
                clock - requests[i] < WindowTicks =>
                    \E j \in 1..Len(requests') : requests'[j] = requests[i]
          /\ UNCHANGED <<max_requests, time_window, lock, reserved, clock>>
      ]_vars

\* a get_remaining_capacity has just returned, having dropped a reservation
\* and kept a younger one
C17_Witness ==
    /\ capacity.dropped >= 1
    /\ capacity.at = clock
    /\ Len(reserved) = capacity.n
    /\ Len(requests) >= 1
    /\ lock = NoThread

\* C18: when get_remaining_capacity has returned k > 0, a wait_if_needed
\* entered at that same instant, nothing recorded in between, computes a
\* wait of 0.
C18_CapacityMeansNoWait ==
    (/\ lock # NoThread
     /\ capacity.value > 0
     /\ capacity.at = now
     /\ capacity.n = Len(reserved)) => wait_time = 0

\* C19: a thread inside get_remaining_capacity is never kept from returning
\* by a thread that is waiting for a slot inside wait_if_needed.
C19_CapacityNonBlocking ==
    \A t \in Threads :
        pc[t] = "capacity" =>
            ~(\E u \in Threads : /\ pc[u] = "waiting"
                                 /\ lock = u
                                 /\ Scale * clock < end_time)

\* C20: no call of wait_if_needed fails, and the wait a call returns is
\* between 0 and time_window.
C20_NeverFails ==
    \A t \in Threads :
        /\ pc[t] # "raised"
        /\ last_wait[t] >= 0
        /\ last_wait[t] <= Scale * WindowTicks

(* ------------------------------ C21 ---------------------------------- *)

\* thread t's call of wait_if_needed computes its wait in this step
C21_Enters(t) == pc[t] = "idle" /\ pc'[t] \in {"waiting", "record", "raised"}

\* C21: reset() clears all recorded reservations: as long as no wait_if_needed
\* was called since reset returned, get_remaining_capacity returns
\* max_requests, and the next wait_if_needed goes on to record its request
\* with a wait of 0, whatever calls preceded the reset.
C21_ResetClears ==
    [][\A t \in Threads :
          just_reset =>
            /\ C17_Returns(t) => capacity'.value = max_requests
            /\ C21_Enters(t) => pc'[t] = "record" /\ wait_time' = 0]_vars

(* ------------------------------ C22 ---------------------------------- *)

\* process_ticket's loop body runs for the event the stream yielded
C22_CallbackStep == p_pc = "yielded" /\ p_pc' # "yielded"

\* C22: within one run the stages execute in the fixed order 1..5, each at most
\* once (the stage only ever changes to 1 at the start of the run or to its
\* successor after a stage completed), and the progress callback is invoked
\* once after each completed stage, before the next stage starts, with that
\* stage's name and the merged state.
C22_OrderedStagesWithProgress ==
    [][/\ stage' # stage =>
            \/ p_pc = "idle" /\ stage' = 1
            \/ C22_CallbackStep /\ stage' = stage + 1
       /\ (p_pc = "node" /\ p_pc' # "node") =>
            p_pc' \in {"yielded", "ended"}
       /\ C22_CallbackStep =>
            /\ merged_stage = stage
            /\ local = chan]_vars

(* ------------------------------ C23 ---------------------------------- *)

\* a state dict that carries the initial processing_time
C23_Unstamped(st) == st = NoState \/ st.processing_time = 0

\* process_ticket leaves its loop and returns
C23_Finishes == p_pc = "stream_end" /\ p_pc' = "ended"

\* C23: a run reaches Completed only after all five stages have been merged;
\* processing_time keeps its initial value 0 in every state dict of the run
\* and is stamped with the elapsed time exactly once, after the last stage, on
\* the state that process_ticket returns, which is otherwise the last stage's.
C23_StampedOnceAtEnd ==
    [][/\ C23_Unstamped(local') /\ C23_Unstamped(chan')
       /\ IF C23_Finishes
          THEN /\ merged_stage = NumStages
               /\ final_state # NoState /\ C23_Unstamped(final_state)
               /\ status_text' = "Complete"
               /\ returned' = final_state'
               /\ returned'.processing_time \in 1..MaxElapsed
               /\ \A f \in DOMAIN final_state \ {"processing_time"} :
                     returned'[f] = final_state[f]
          ELSE /\ status_text' = "Complete" => status_text = "Complete"
               /\ final_state' = final_state \/ C23_Unstamped(final_state')
               /\ returned' = returned \/ returned' = NoState]_vars

C23_Witness ==
    /\ status_text = "Complete"
    /\ merged_stage = NumStages
    /\ returned # NoState
    /\ returned.processing_time >= 1
    /\ C23_Unstamped(chan)

(* ------------------------------ C24 ---------------------------------- *)

\* the attempts before the last one all failed with a transient error
C24_TransientThenSuccess ==
    /\ r_pc = "returned"
    /\ Len(outcomes) >= 2
    /\ \A k \in 1..(Len(outcomes) - 1) :
          ~outcomes[k].ok /\ IsTransient(outcomes[k].error)

\* the stage takes the result of call_gemini_with_retry
C24_TakesResult == s_pc = "remote" /\ r_pc # "idle" /\ r_pc' = "idle"

\* C24: a remote call that fails transiently k times, k < max_retries, and
\* then succeeds hands the successful response to the stage without an error,
\* and when the stage goes on, parsing succeeding or not, the cache holds that
\* response under the request's key.
C24_RetriedThenCached ==
    [][(C24_TakesResult /\ C24_TransientThenSuccess) =>
          /\ Len(outcomes) <= max_retries
          /\ raised_error = NoError
          /\ response_text = outcomes[Len(outcomes)].text
          /\ HasFile(cache_files', CurrentKey)
          /\ FileOf(cache_files', CurrentKey).response = response_text]_vars

(* ------------------------------ C25 ---------------------------------- *)

\* C25: the rate-limiter wait and the retry backoff wait observe the cancel
\* signal: a wait that ends with cancellation requested is not followed by a
\* further remote call, neither the next attempt after a backoff nor the call
\* the limiter was waited for.
C25_WaitsObserveCancel ==
    [][cancel_requested =>
          /\ (s_pc = "remote" /\ r_pc = "sleep" /\ r_pc' # "sleep") => r_pc' # "try"
          /\ (s_pc = "acquiring" /\ s_pc' # "acquiring") => s_pc' # "remote"]_vars

(* ------------------------------ C26 ---------------------------------- *)

\* C26: with several threads inside get and set of one APICache, a lookup
\* never deletes what a set() has written: once the latest set() on a key has
\* returned after writing, and no other set() on that key is under way, a
\* lookup finds the response it wrote for as long as its age is within the TTL.
C26_StoredSurvives ==
    \A k \in RaceKeys :
        (/\ cache_stored[k] # NoStored
         /\ \A t \in Threads : ~(cache_calls[t].pc = "s_dump" /\ cache_calls[t].key = k)
         /\ clock - cache_stored[k].at <= ttl)
        => CacheGet(cache_files, k, clock) = cache_stored[k].text

(* ------------------------------ C27 ---------------------------------- *)

\* the delay a failure message suggests, in ticks (NoHint: it suggests none)
C27_Suggested(e) ==
    IF e.retry_in # NoHint THEN e.retry_in ELSE e.retry_delay_seconds

\* C27: the i-th wait of a call follows the transient failure of attempt index
\* a = i - 1; it is the delay the failure message suggests plus one second when
\* the message carries one, and else min(15 * 2^a, 60) seconds; these fallback
\* waits never decrease from one attempt to a later one and never exceed 60 s.
C27_WaitBeforeRetry ==
    /\ Len(slept) <= Len(outcomes)
    /\ \A i \in 1..Len(slept) :
          LET e == outcomes[i].error
              a == i - 1
          IN /\ ~outcomes[i].ok /\ IsTransient(e) /\ a < max_retries - 1
             /\ slept[i] = IF C27_Suggested(e) # NoHint
                           THEN C27_Suggested(e) + 1 * TicksPerSecond
                           ELSE Min(15 * (2 ^ a), 60) * TicksPerSecond
             /\ C27_Suggested(e) = NoHint =>
                   /\ slept[i] <= 60 * TicksPerSecond
                   /\ \A j \in 1..i :
                         C27_Suggested(outcomes[j].error) = NoHint => slept[j] <= slept[i]

\* a suggested delay was waited for after the first attempt, and the fourth
\* wait was the capped fallback
C27_Witness ==
    /\ Len(slept) = 4
    /\ outcomes[1].error.retry_in = 3
    /\ slept[1] = 3 + TicksPerSecond
    /\ C27_Suggested(outcomes[4].error) = NoHint
    /\ slept[4] = 60 * TicksPerSecond

(* ------------------------------ C28 ---------------------------------- *)

\* the fields a stage is the first to produce
C28_FirstProduces(j) ==
    CASE j = 1 -> {"extracted_requirements", "acceptance_criteria_gaps",
                   "clarification_questions", "agent_logs"}
      [] j = 2 -> {"impacted_modules", "dependencies", "risk_areas"}
      [] j = 3 -> {"qa_roadmap"}
      [] j = 4 -> {"test_cases"}
      [] j = 5 -> {"coverage_gaps"}

\* C28: the run starts from a state with every append field empty and every
\* replace field at its default, and at the moment stage i starts, every field
\* first produced by a stage j >= i is present in the state the stage is
\* handed, and in the merged state, with its empty value.
C28_PopulatedInOrder ==
    (p_pc = "node" /\ s_pc = "start") =>
        /\ stage = 1 =>
              /\ \A f \in AppendFields : local[f] = <<>>
              /\ \A f \in ReplaceFields \ {"ticket_info", "current_agent", "processing_time"} :
                    local[f] = <<>>
              /\ local.ticket_info \in Tickets
              /\ local.current_agent = ""
              /\ local.processing_time = 0
        /\ \A j \in stage..NumStages : \A f \in C28_FirstProduces(j) :
              /\ f \in DOMAIN local /\ local[f] = <<>>
              /\ f \in DOMAIN chan /\ chan[f] = <<>>

\* test_generator starts with the roadmap of test_strategy and no test cases
C28_Witness ==
    /\ p_pc = "node" /\ s_pc = "start"
    /\ stage = 4
    /\ local.qa_roadmap # <<>>
    /\ local.risk_areas # <<>>
    /\ local.test_cases = <<>>
    /\ local.coverage_gaps = <<>>

(* ------------------------------ C29 ---------------------------------- *)

C30_Valid(files, t) == {e \in files : e.readable /\ t - e.timestamp <= ttl}

\* C30: get_stats() is observation only: it leaves every entry in place,
\* expired and corrupt ones included; total_entries is the number of entries,
\* valid_entries the number of readable entries whose age does not exceed the
\* TTL, and total_entries = valid_entries + expired_entries.
C30_StatsObserveOnly ==
    [][(cache_op'.op = "stats" /\ clock' = clock) =>
          /\ cache_files' = cache_files
          /\ cache_op'.stats.total_entries = Cardinality(cache_files)
          /\ cache_op'.stats.valid_entries = Cardinality(C30_Valid(cache_files, clock))
          /\ cache_op'.stats.total_entries =
                cache_op'.stats.valid_entries + cache_op'.stats.expired_entries]_vars

\* get_stats counted a valid entry of age exactly TTL and a corrupt one, and
\* both are still there
C30_Witness ==
    /\ cache_op.op = "stats"
    /\ cache_op.stats = [total_entries |-> 2, valid_entries |-> 1, expired_entries |-> 1]
    /\ \E e \in cache_files : ~e.readable
    /\ \E e \in cache_files : e.readable /\ clock - e.timestamp = ttl

(* ------------------------------ C31 ---------------------------------- *)

\* the category of each message the user may be shown
C31_Category(msg) ==
    CASE msg = "Rate limit reached. Please wait a moment and try again." -> "quota"
      [] msg = "Too many requests. Please wait and try again." -> "quota"
      [] msg = "Invalid API key. Please check your API key in the sidebar." -> "credentials"
      [] msg = "Authentication failed. Please verify your API key." -> "credentials"
      [] msg = "Permission denied. Please check your API key permissions." -> "credentials"
      [] msg = "Connection error. Please check your internet connection." -> "network"
      [] msg = "Invalid request. Please check your input and try again." -> "invalid request"
      [] msg = "Service temporarily unavailable. Please try again later." -> "unavailable"
      [] msg = "Model not available. Please check the model name in settings." -> "unavailable"
      [] msg = "An error occurred. Please try again or check your configuration." -> "unknown"
      [] OTHER -> "raw"

\* the markers the function looks for, in lower case
C31_Markers ==
    {"api_key_invalid", "api key not valid", "resource_exhausted", "rate limit",
     "quota", "permission", "forbidden", "connection", "network", "timeout",
     "model not found", "400", "401", "unauthorized", "429", "500", "503"}

\* C31: every failure is mapped to one message of the fixed categories, never
\* to a part of the failure text, and a failure whose text carries no marker
\* is mapped to the unknown category.
C31_FixedCategories ==
    ui_message # NoText =>
        /\ C31_Category(ui_message) \in
              {"quota", "credentials", "network", "invalid request", "unavailable",
               "unknown"}
        /\ ui_message \notin ui_error
        /\ (\A ph \in ui_error : LowerPhrase(ph) \notin C31_Markers) =>
              C31_Category(ui_message) = "unknown"

\* a text of two phrases without marker was shown as the unknown category
C31_Witness ==
    /\ ui_error = {"list index out of range", "Internal error"}
    /\ C31_Category(ui_message) = "unknown"

(* ------------------------------ C32 ---------------------------------- *)

\* the reservations of reqs that have not expired at time t
C32_Unexpired(reqs, t) == SelectSeq(reqs, LAMBDA r : t - r < WindowTicks)

\* thread t computes its wait in this step
C32_Computes(t) == pc[t] = "idle" /\ pc'[t] \in {"waiting", "record"}

\* C32: when the window holds N unexpired reservations, the window wait is
\* oldest + W - now plus the margin of half a second (one tick); when there is
\* a latest reservation, the wait taken is the larger of the window wait and
\* the spacing wait; a wait that is zero or negative causes no waiting; after a
\* wait the reservations left are unexpired when the new one is appended; the
\* window never holds more than N entries and is in non-decreasing order.
C32_WaitAndEvict ==
    [][/\ \A t \in Threads :
            C32_Computes(t) =>
              LET live == C32_Unexpired(requests, clock)
                  window == IF Len(live) >= max_requests
                            THEN Scale * (live[1] + WindowTicks - clock + 1)
                            ELSE 0
                  spacing == min_interval - Scale * (clock - live[Len(live)])
                  wait == IF live = <<>> THEN window
                          ELSE IF window >= spacing THEN window ELSE spacing
              IN /\ wait_time' = wait
                 /\ pc'[t] = IF wait > 0 THEN "waiting" ELSE "record"
       /\ \A t \in Threads :
            (pc[t] = "record" /\ pc'[t] = "idle") =>
              /\ requests' = Append(requests, clock)
              /\ wait_time > 0 => requests = C32_Unexpired(requests, now)
       /\ Len(requests') <= max_requests
       /\ \A i \in 1..(Len(requests') - 1) : requests'[i] <= requests'[i + 1]]_vars

\* a caller found the window full, waited for the oldest reservation to expire
\* and was recorded, the window full again
C32_Witness ==
    /\ max_requests = 2
    /\ Len(requests) = max_requests
    /\ Len(reserved) > max_requests
    /\ \A t \in Threads : pc[t] = "idle"
    /\ \E t \in Threads : last_wait[t] > min_interval

(* ------------------------------ C33 ---------------------------------- *)

\* the agent reaches "Check cache first" for a logical request
C33_Requests == p_pc = "node" /\ s_pc = "call" /\ s_pc' # "call"

C34_Requests == p_pc = "direct" /\ s_pc = "call" /\ s_pc' # "call"

\* C34: for ticket_reader, context_builder, test_strategy and coverage_auditor
\* with a cache: when the response stored for the request in work, within the
\* TTL, is one that does not parse, the request hits the cache and fails with
\* the parse error; no remote call and no rate-limiter wait is made for it.
C34_UnparsableRepeats ==
    [][(/\ C34_Requests
        /\ agent_api_cache
        /\ stage # 4
        /\ answered.key = CurrentKey
        /\ clock - answered.at <= ttl
        /\ ~JsonLoads(stage, answered.text).ok)
       => /\ p_pc' = "raised"
          /\ s_pc' = "none"
          /\ r_pc' = "idle"
          /\ acquires' = 0]_vars

(* ------------------------------ C35 ---------------------------------- *)

\* C35: get_rate_limiter yields one process-wide limiter: at most one
\* RateLimiter is ever constructed, configured with the arguments of the call
\* that constructed it, and every caller is returned that instance.
C35_OneLimiter ==
    /\ Len(g_created) <= 1
    /\ \A t \in Threads :
          g_calls[t].pc = "returned" =>
             /\ Len(g_created) = 1
             /\ g_calls[t].result = g_created[1]

(* ------------------------------ C36 ---------------------------------- *)

\* the categories of qa_roadmap.items(), in roadmap order
C36_Categories == [c \in 1..Len(local.qa_roadmap) |-> local.qa_roadmap[c].category]

\* test_generator is executing
C36_InGenerator == p_pc = "node" /\ stage = 4 /\ s_pc \in {"call", "remote", "wrapup"}

\* the requests made so far are the first categories of the roadmap, one
\* each; when the stage gets to its log they are all of them, and with an
\* empty roadmap there was no request and no test case was added
C36_RequestsSoFar ==
    C36_InGenerator =>
       /\ Len(requested) <= Len(C36_Categories)
       /\ requested = SubSeq(C36_Categories, 1, Len(requested))
       /\ s_pc = "call" => Len(requested) = cat_idx - 1
       /\ s_pc = "remote" => Len(requested) = cat_idx /\ r_pc # "idle"
       /\ s_pc = "wrapup" => requested = C36_Categories
       /\ (s_pc = "wrapup" /\ local.qa_roadmap = <<>>) =>
             /\ requested = <<>>
             /\ local.test_cases = before.test_cases
             /\ r_pc = "idle"

\* the response of a category is unparsable: the category adds no test case
\* and the stage goes on to the next category, or to its log after the last
C36_UnparsableStep ==
    (/\ C36_InGenerator
     /\ s_pc = "remote"
     /\ r_pc = "returned"
     /\ ~JsonLoads(4, response_text).ok
     /\ s_pc' # "remote") =>
       /\ local'.test_cases = local.test_cases
       /\ p_pc' = "node"
       /\ IF cat_idx < Len(local.qa_roadmap)
          THEN s_pc' = "call" /\ cat_idx' = cat_idx + 1
          ELSE s_pc' = "wrapup"

C37_Numbered(i) == <<i \div 100, (i \div 10) % 10, i % 10>>

\* C37: within one execution of test_generator the test_id values are pairwise
\* distinct and numbered consecutively <ticket_id>_TC001, _TC002, ... in
\* generation order across all categories.
C37_ConsecutiveTestIds ==
    C36_InGenerator =>
       /\ \A i \in 1..Len(local.test_cases) :
             /\ local.test_cases[i].test_id.ticket_id = local.ticket_info
             /\ local.test_cases[i].test_id.tc = C37_Numbered(i)
       /\ \A i, j \in 1..Len(local.test_cases) :
             i # j => local.test_cases[i].test_id # local.test_cases[j].test_id

\* the first category gave MaxCases test cases and the second gave one, which
\* is numbered after them
C37_Witness ==
    /\ C36_InGenerator
    /\ s_pc = "wrapup"
    /\ Len(local.test_cases) = MaxCases + 1
    /\ local.test_cases[MaxCases].category = C36_Categories[1]
    /\ local.test_cases[MaxCases + 1].category = C36_Categories[2]
    /\ local.test_cases[MaxCases + 1].test_id.tc = C37_Numbered(MaxCases + 1)

(* ------------------------------ C38 ---------------------------------- *)

\* a run of app.process_ticket is in progress
C38_Running == p_pc \in {"node", "yielded", "stream_end"}

\* `processing` is set only while a run is in progress
C38_ProcessingOnlyWhileRunning == processing => C38_Running

\* a run starts with processing set and cancel_requested clear; every way out
\* of a run clears processing; reporting Cancelled clears cancel_requested;
\* the session's final_state changes only as a run completes
C38_FlagStep ==
    /\ (~C38_Running /\ C38_Running') => (processing' /\ ~cancel_requested')
    /\ (C38_Running /\ ~C38_Running') =>
          /\ ~processing'
          /\ status_text' \in {"Complete", "Cancelled", "Failed"}
          /\ status_text' = "Cancelled" => ~cancel_requested'
          /\ status_text' # "Complete" => session_final_state' = session_final_state
    /\ session_final_state' # session_final_state =>
          /\ p_pc = "stream_end"
          /\ status_text' = "Complete"
          /\ session_final_state' = returned'

\* C38: processing is true only while a run is in progress and is false after
\* completion, cancellation and failure; cancel_requested is false at the start
\* of every run and is cleared when a cancelled run is reported; final_state is
\* replaced only by a completed run.
C38_SessionFlags == []C38_ProcessingOnlyWhileRunning /\ [][C38_FlagStep]_vars

\* a second run was cancelled and reported: the flags are clear and the
\* session still holds the first run's final state
C38_Witness ==
    /\ calls = 1
    /\ p_pc = "ended"
    /\ status_text = "Cancelled"
    /\ ~processing
    /\ ~cancel_requested
    /\ session_final_state # NoState

(* ------------------------------ C39 ---------------------------------- *)

\* the call is over
C39_Ended == r_pc \in {"returned", "raised"}

\* the call ended as the claim says: with the text of its last attempt, which
\* succeeded, or with the failure of its last attempt; and, when every one of
\* max_retries attempts failed transiently, after max_retries - 1 waits
C39_EndsAsClaimed ==
    /\ outcomes # <<>>
    /\ LET last == outcomes[Len(outcomes)] IN
       /\ r_pc = "returned" => (last.ok /\ response_text = last.text)
       /\ r_pc = "raised" => (~last.ok /\ raised_error = last.error)
       /\ (r_pc = "raised" /\ IsTransient(last.error)) =>
             /\ Len(outcomes) = max_retries
             /\ Len(slept) = max_retries - 1

\* C39: call_gemini_with_retry always ends by returning the text of a
\* successful attempt or by raising the failure of its last attempt, and on
\* exhaustion it has made exactly max_retries - 1 backoff waits.
C39_TwoEndings == C39_Ended => C39_EndsAsClaimed

====
